---- MODULE Spec2Model ----
(***************************************************************************)
(* Settlement ledger of jynk: the sql.js database layer                    *)
(* (backend/src/db/index.ts), the Solana payment service and its HTTP      *)
(* routes (the server half of src/hooks/useSolanaPayment.ts) and the EVM   *)
(* x402 service (backend/src/services/x402.ts).                            *)
(*                                                                         *)
(* Every handler is an async function.  Each `await` suspends the handler  *)
(* and appends its continuation to the job queue of the single JavaScript  *)
(* thread, which runs jobs first-in first-out (every promise awaited here  *)
(* is already settled, the database calls being synchronous inside).  The  *)
(* variable queue holds the handlers in flight in the order in which their *)
(* continuations run, proc[p].pc is the await at which handler p is        *)
(* suspended, and one action is the code between two awaits.  A request    *)
(* may arrive, and its handler join the tail of the queue, at any moment.  *)
(***************************************************************************)
EXTENDS Integers, Sequences, FiniteSets, Bags, TLC

\* ---------------------------------------------------------------- bounds
MaxProcs == 3        \* handlers in flight at the same time
MaxCalls == 3        \* verification requests over a behaviour
MaxAdmin == 1        \* product and profile requests over a behaviour
MaxClock == 1        \* Date.now() takes the values 0..MaxClock
MaxQuantity == 1     \* largest max_quantity a product is created with

\* ---------------------------------------------------------------- inputs
Procs == 1..MaxProcs
ProductIds == {"p1", "p2"}
Addresses == {"c1", "c2"}
Buyers == {"b1"}
Prices == {999, 500}
Urls == {"https://t/1"}
Usernames == {"alice"}
DisplayNames == {"Alice"}
SolanaRefs == {"SIG_A", "SIG_B"}
EvmRefs == {"0xaa"}
Signatures == {"0xa", "0xb"}
X402Networks == {"eip155:8453", "solana:5eykt4UsFv8P8NJdTREpY1vzqKqZKvdp"}

\* max_quantity NULL is written NoMax; the code treats NULL and every value
\* that is not positive alike (max_quantity !== null && max_quantity > 0)
NoMax == 0
Quantities == {NoMax} \cup (1..MaxQuantity)

VARIABLES products, profiles, purchases, now, proc, queue, responses, calls, admin

\* the payment hook in the buyer's browser: its React state, its pay() calls,
\* the transfers that landed on chain and what the hook reported
VARIABLES status, attempt, chain, reports, env, wire

dbVars == <<products, profiles, purchases>>
serverVars == <<products, profiles, purchases, now, proc, queue, responses, calls, admin>>
clientVars == <<status, attempt, chain, reports, env, wire>>
vars == <<serverVars, clientVars>>

Range(s) == {s[i] : i \in DOMAIN s}

\* ------------------------------------------------------- database layer
\* getOne returns a row or null: a set with at most one element

getProductByIdInternal(id) ==
    IF id \in DOMAIN products THEN {products[id]} ELSE {}

getProductById(id, includeInactive) ==
    IF includeInactive
    THEN getProductByIdInternal(id)
    ELSE {r \in getProductByIdInternal(id) : r.is_active}

\* the lookup that never finds a recorded reference
getPurchaseByTxHashNone(txHash) == {}

getPurchaseByTxHash(txHash) == {r \in purchases : r.tx_hash = txHash}

getProfile(address) ==
    IF address \in DOMAIN profiles THEN {profiles[address]} ELSE {}

\* the purchases table without its primary key
PurchaseInsertNoKey(row) == row.network \in {"base", "solana"}

\* CHECK(network IN ('base', 'solana')) and PRIMARY KEY (id) of purchases
PurchaseInsertOk(row) ==
    /\ row.network \in {"base", "solana"}
    /\ \A r \in purchases : r.id # row.id

\* purchaseId = `${txHash}_${Date.now()}`
PurchaseId(txHash, t) == <<txHash, t>>

\* the row addPurchase inserts
addPurchase(productId, buyerAddress, txHash, network, amount, t) ==
    [id |-> PurchaseId(txHash, t), product_id |-> productId,
     buyer_address |-> buyerAddress, tx_hash |-> txHash,
     network |-> network, amount |-> amount]

\* UPDATE store_profiles SET total_earned = total_earned + ? WHERE address = ?
updateProfileEarnings(address, amount) ==
    IF address \in DOMAIN profiles
    THEN [profiles EXCEPT ![address].total_earned = @ + amount]
    ELSE profiles

\* the row createProduct inserts: sold_count 0, is_active 1
ProductRow(id, price, targetUrl, creatorAddress, maxQuantity) ==
    [id |-> id, price |-> price, target_url |-> targetUrl,
     creator_address |-> creatorAddress, sold_count |-> 0,
     max_quantity |-> maxQuantity, is_active |-> TRUE]

\* the row upsertProfile inserts: views and total_earned default to 0
ProfileRow(username, displayName) ==
    [username |-> username, display_name |-> displayName,
     views |-> 0, total_earned |-> 0]

\* ------------------------------------------------------------- handlers
NoBody == [price |-> {}, isActive |-> {}, sold_count |-> {}, maxQuantity |-> {}]

IdleProc ==
    [pc |-> "idle", kind |-> "none", productId |-> "", txHash |-> "",
     network |-> "", buyer |-> "", product |-> {}, existing |-> {},
     sold |-> {}, rowState |-> "absent", full |-> FALSE, recorded |-> {},
     body |-> NoBody, address |-> "", name |-> ""]

Running(p) == queue # << >> /\ p = Head(queue)
Free == Procs \ Range(queue)
NextFree == CHOOSE p \in Free : \A q \in Free : p <= q

\* the handler is suspended at an await: its continuation goes to the tail
Yield(p, st) ==
    /\ proc' = [proc EXCEPT ![p] = st]
    /\ queue' = Tail(queue) \o <<p>>
    /\ UNCHANGED clientVars

\* the verification returns or throws: the response is recorded together
\* with what the database held when the call read it
Respond(p, outcome, content) ==
    /\ responses' = responses (+) SetToBag({
          [kind |-> proc[p].kind, productId |-> proc[p].productId,
           txHash |-> proc[p].txHash, outcome |-> outcome,
           content |-> content, rowState |-> proc[p].rowState,
           full |-> proc[p].full, recorded |-> proc[p].recorded]})
    /\ proc' = [proc EXCEPT ![p] = IdleProc]
    /\ queue' = Tail(queue)
    /\ UNCHANGED clientVars

\* what the database holds when a call reads it, kept with the response
RowState(id) ==
    IF id \notin DOMAIN products THEN "absent"
    ELSE IF products[id].is_active THEN "active" ELSE "inactive"

Full(id) ==
    /\ id \in DOMAIN products
    /\ products[id].max_quantity >= 1
    /\ products[id].sold_count >= products[id].max_quantity

Recorded(txHash) == {r.product_id : r \in {x \in purchases : x.tx_hash = txHash}}

\* the availability check left out
SoldOutNever(row) == FALSE

\* max_quantity !== null && max_quantity > 0 && sold_count >= max_quantity
SoldOut(row) ==
    /\ row.max_quantity # NoMax /\ row.max_quantity > 0
    /\ row.sold_count >= row.max_quantity

StartVerify(st) ==
    /\ Free # {}
    /\ calls < MaxCalls
    /\ calls' = calls + 1
    /\ proc' = [proc EXCEPT ![NextFree] =
          [st EXCEPT !.recorded = Recorded(st.txHash)]]
    /\ queue' = Append(queue, NextFree)
    /\ UNCHANGED <<dbVars, now, responses, admin, clientVars>>

\* POST /api/pay/direct with a well-formed body calls
\* PaymentService.verifyPayment, which first awaits import('./db/index.js')
StartSolana(productId, txHash, buyer) ==
    StartVerify([IdleProc EXCEPT !.pc = "v_product", !.kind = "solana",
                   !.productId = productId, !.txHash = txHash,
                   !.network = "solana", !.buyer = buyer])

\* 1. const product = await getProductByIdInternal(productId)
VerifyGetProduct(p) ==
    /\ Running(p)
    /\ proc[p].pc = "v_product"
    /\ Yield(p, [proc[p] EXCEPT !.pc = "v_checks",
                    !.product = getProductByIdInternal(proc[p].productId),
                    !.rowState = RowState(proc[p].productId),
                    !.full = Full(proc[p].productId)])
    /\ UNCHANGED <<dbVars, now, responses, calls, admin>>

\* the checks with the sale counted before them
VerifyChecksSalesFirst(p) ==
    /\ Running(p)
    /\ proc[p].pc = "v_checks"
    /\ products' = IF proc[p].productId \in DOMAIN products
                   THEN [products EXCEPT ![proc[p].productId].sold_count = @ + 1]
                   ELSE products
    /\ IF proc[p].product = {}
       THEN Respond(p, "not_found", "")
       ELSE LET row == CHOOSE r \in proc[p].product : TRUE IN
            IF ~row.is_active THEN Respond(p, "inactive", "")
            ELSE IF SoldOut(row) THEN Respond(p, "sold_out", "")
            ELSE /\ Yield(p, [proc[p] EXCEPT !.pc = "v_record",
                        !.existing = getPurchaseByTxHash(proc[p].txHash)])
                 /\ UNCHANGED responses
    /\ UNCHANGED <<profiles, purchases, now, calls, admin>>

\* 1.-4. the three checks on the product read, then
\* const existingPurchase = await getPurchaseByTxHash(txHash)
VerifyChecks(p) ==
    /\ Running(p)
    /\ proc[p].pc = "v_checks"
    /\ IF proc[p].product = {}
       THEN Respond(p, "not_found", "")
       ELSE LET row == CHOOSE r \in proc[p].product : TRUE IN
            IF ~row.is_active THEN Respond(p, "inactive", "")
            ELSE IF SoldOut(row) THEN Respond(p, "sold_out", "")
            ELSE /\ Yield(p, [proc[p] EXCEPT !.pc = "v_record",
                        !.existing = getPurchaseByTxHash(proc[p].txHash)])
                 /\ UNCHANGED responses
    /\ UNCHANGED <<dbVars, now, calls, admin>>

\* 4.-6. the replay check, then await addPurchase({...}); Date.now() may
\* have advanced since it was last read
VerifyRecord(p) ==
    /\ Running(p)
    /\ proc[p].pc = "v_record"
    /\ IF proc[p].existing # {}
       THEN Respond(p, "replay", "") /\ UNCHANGED <<purchases, now>>
       ELSE \E t \in {now, now + 1} :
            LET row == CHOOSE r \in proc[p].product : TRUE
                new == addPurchase(proc[p].productId, proc[p].buyer,
                          proc[p].txHash, proc[p].network, row.price, t)
            IN  /\ t <= MaxClock
                /\ now' = t
                /\ IF ~PurchaseInsertOk(new)
                   THEN Respond(p, "sql_error", "") /\ UNCHANGED purchases
                   ELSE /\ purchases' = purchases \cup {new}
                        /\ Yield(p, [proc[p] EXCEPT !.pc = "v_sales"])
                        /\ UNCHANGED responses
    /\ UNCHANGED <<products, profiles, calls, admin>>

\* 7. updateProductSales(productId), up to its await:
\* const product = await getProductByIdInternal(id)
SalesRead(p) ==
    /\ Running(p)
    /\ proc[p].pc = "v_sales"
    /\ Yield(p, [proc[p] EXCEPT !.pc = "v_sales_write",
           !.sold = {r.sold_count : r \in getProductByIdInternal(proc[p].productId)}])
    /\ UNCHANGED <<dbVars, now, responses, calls, admin>>

\* the rest of updateProductSales: if (product)
\* run('UPDATE products SET sold_count = ? WHERE id = ?', [sold_count + 1, id])
updateProductSales(id, sold) ==
    IF sold = {} \/ id \notin DOMAIN products THEN products
    ELSE [products EXCEPT ![id].sold_count = (CHOOSE n \in sold : TRUE) + 1]

SalesWrite(p) ==
    /\ Running(p)
    /\ proc[p].pc = "v_sales_write"
    /\ products' = updateProductSales(proc[p].productId, proc[p].sold)
    /\ Yield(p, [proc[p] EXCEPT
           !.pc = IF proc[p].kind = "solana" THEN "v_earn" ELSE "v_return"])
    /\ UNCHANGED <<profiles, purchases, now, responses, calls, admin>>

\* 8. await updateProfileEarnings(product.creator_address, product.price)
VerifyEarnings(p) ==
    /\ Running(p)
    /\ proc[p].pc = "v_earn"
    /\ LET row == CHOOSE r \in proc[p].product : TRUE
       IN  profiles' = updateProfileEarnings(row.creator_address, row.price)
    /\ Yield(p, [proc[p] EXCEPT !.pc = "v_return"])
    /\ UNCHANGED <<products, purchases, now, responses, calls, admin>>

\* return { txHash, unlockedContent: product.target_url }
VerifyReturn(p) ==
    /\ Running(p)
    /\ proc[p].pc = "v_return"
    /\ LET row == CHOOSE r \in proc[p].product : TRUE
       IN  Respond(p, "ok", row.target_url)
    /\ UNCHANGED <<dbVars, now, calls, admin>>

\* the handler of a product or profile request returns or throws
Finish(p) ==
    /\ proc' = [proc EXCEPT ![p] = IdleProc]
    /\ queue' = Tail(queue)
    /\ UNCHANGED clientVars

StartAdmin(st) ==
    /\ Free # {}
    /\ admin < MaxAdmin
    /\ admin' = admin + 1
    /\ proc' = [proc EXCEPT ![NextFree] = st]
    /\ queue' = Append(queue, NextFree)
    /\ UNCHANGED <<dbVars, now, responses, calls, clientVars>>

\* ------------------------------------------------------- product routes
\* INSERT INTO products (...) VALUES (...)
createProduct(id, price, targetUrl, creatorAddress, maxQuantity) ==
    (id :> ProductRow(id, price, targetUrl, creatorAddress, maxQuantity)) @@ products

\* POST /api/products with a body that passes the validations
StartCreateProduct(id, price, creatorAddress, maxQuantity) ==
    StartAdmin([IdleProc EXCEPT !.pc = "c_insert", !.kind = "create",
                  !.productId = id, !.address = creatorAddress,
                  !.body = [NoBody EXCEPT !.price = {price},
                                          !.maxQuantity = {maxQuantity}]])

\* await createProduct({...}); a second row with the same id violates
\* PRIMARY KEY (id) and the route answers 500
CreateProductInsert(p) ==
    /\ Running(p)
    /\ proc[p].pc = "c_insert"
    /\ IF proc[p].productId \in DOMAIN products
       THEN UNCHANGED products
       ELSE products' = createProduct(proc[p].productId,
                CHOOSE x \in proc[p].body.price : TRUE,
                CHOOSE u \in Urls : TRUE, proc[p].address,
                CHOOSE m \in proc[p].body.maxQuantity : TRUE)
    /\ Finish(p)
    /\ UNCHANGED <<profiles, purchases, now, responses, calls, admin>>

\* the request bodies of PUT /api/products/:id: each key present or not
Bodies ==
    {[NoBody EXCEPT !.price = {x}] : x \in Prices}
    \cup {[NoBody EXCEPT !.isActive = {a}] : a \in BOOLEAN}
    \cup {[NoBody EXCEPT !.sold_count = {0}]}

\* a columnMap that also maps sold_count
columnMapSoldCount == {"price", "isActive", "sold_count"}

\* the keys of the body that columnMap maps to a column
columnMap == {"price", "isActive"}

\* updateProduct: UPDATE products SET <mapped keys> WHERE id = ?
updateProduct(id, body) ==
    IF id \notin DOMAIN products THEN products
    ELSE [products EXCEPT ![id] =
            [@ EXCEPT
               !.price = IF "price" \in columnMap /\ body.price # {}
                         THEN CHOOSE x \in body.price : TRUE ELSE @,
               !.is_active = IF "isActive" \in columnMap /\ body.isActive # {}
                             THEN CHOOSE a \in body.isActive : TRUE ELSE @,
               !.sold_count = IF "sold_count" \in columnMap /\ body.sold_count # {}
                              THEN CHOOSE n \in body.sold_count : TRUE ELSE @]]

\* PUT /api/products/:id
StartUpdateProduct(id, body) ==
    StartAdmin([IdleProc EXCEPT !.pc = "u_read", !.kind = "put",
                  !.productId = id, !.body = body])

\* const existing = await getProductById(params.id)
UpdateProductRead(p) ==
    /\ Running(p)
    /\ proc[p].pc = "u_read"
    /\ Yield(p, [proc[p] EXCEPT !.pc = "u_write",
                    !.product = getProductById(proc[p].productId, FALSE)])
    /\ UNCHANGED <<dbVars, now, responses, calls, admin>>

\* 404 if (!existing), else await updateProduct(params.id, body)
UpdateProductWrite(p) ==
    /\ Running(p)
    /\ proc[p].pc = "u_write"
    /\ IF proc[p].product = {}
       THEN UNCHANGED products
       ELSE products' = updateProduct(proc[p].productId, proc[p].body)
    /\ Finish(p)
    /\ UNCHANGED <<profiles, purchases, now, responses, calls, admin>>

\* UPDATE products SET is_active = 0 WHERE id = ?
deleteProduct(id) ==
    IF id \in DOMAIN products
    THEN [products EXCEPT ![id].is_active = FALSE]
    ELSE products

\* DELETE /api/products/:id
StartDeleteProduct(id) ==
    StartAdmin([IdleProc EXCEPT !.pc = "d_read", !.kind = "delete",
                  !.productId = id])

DeleteProductRead(p) ==
    /\ Running(p)
    /\ proc[p].pc = "d_read"
    /\ Yield(p, [proc[p] EXCEPT !.pc = "d_write",
                    !.product = getProductById(proc[p].productId, FALSE)])
    /\ UNCHANGED <<dbVars, now, responses, calls, admin>>

DeleteProductWrite(p) ==
    /\ Running(p)
    /\ proc[p].pc = "d_write"
    /\ IF proc[p].product = {}
       THEN UNCHANGED products
       ELSE products' = deleteProduct(proc[p].productId)
    /\ Finish(p)
    /\ UNCHANGED <<profiles, purchases, now, responses, calls, admin>>

\* ---------------------------------------------------- EVM x402 service
Min(a, b) == IF a <= b THEN a ELSE b

StartsWith(s, prefix) ==
    Len(s) >= Len(prefix) /\ SubSeq(s, 1, Len(prefix)) = prefix

\* the two hex digits of the UTF-8 byte of a character of a signature
HexOfChar(c) ==
    CASE c = "0" -> "30" [] c = "x" -> "78" [] c = "a" -> "61" [] c = "b" -> "62"

RECURSIVE Hex(_)
\* Buffer.from(signature).toString('hex')
Hex(s) == IF s = "" THEN "" ELSE HexOfChar(SubSeq(s, 1, 1)) \o Hex(SubSeq(s, 2, Len(s)))

HashHexChars == 64

\* txHash = `0x${Buffer.from(payload.payload.signature).toString('hex').slice(0, 64)}`
TxHashOfSignature(signature) ==
    "0x" \o SubSeq(Hex(signature), 1, Min(HashHexChars, Len(Hex(signature))))

\* network = payload.network.startsWith('eip155:8453') ? 'base' : 'baseSepolia'
NetworkOfPayload(network) ==
    IF StartsWith(network, "eip155:8453") THEN "base" ELSE "baseSepolia"

\* X402Service.verifyPayment(productId, paymentPayload, buyerAddress) with a
\* payload that decodes
StartX402(productId, signature, network, buyer) ==
    StartVerify([IdleProc EXCEPT !.pc = "x_product", !.kind = "x402",
                   !.productId = productId,
                   !.txHash = TxHashOfSignature(signature),
                   !.network = NetworkOfPayload(network), !.buyer = buyer])

\* X402Service.verifyDirectPayment(productId, txHash, network, buyerAddress)
StartDirect(productId, txHash, network, buyer) ==
    StartVerify([IdleProc EXCEPT !.pc = "x_product", !.kind = "direct",
                   !.productId = productId, !.txHash = txHash,
                   !.network = network, !.buyer = buyer])

\* const product = await getProductById(productId)
EvmGetProduct(p) ==
    /\ Running(p)
    /\ proc[p].pc = "x_product"
    /\ Yield(p, [proc[p] EXCEPT !.pc = "x_record",
                    !.product = getProductById(proc[p].productId, FALSE),
                    !.rowState = RowState(proc[p].productId),
                    !.full = Full(proc[p].productId)])
    /\ UNCHANGED <<dbVars, now, responses, calls, admin>>

\* if (!product) throw new Error('Product not found'); await addPurchase({...})
EvmRecord(p) ==
    /\ Running(p)
    /\ proc[p].pc = "x_record"
    /\ IF proc[p].product = {}
       THEN Respond(p, "not_found", "") /\ UNCHANGED <<purchases, now>>
       ELSE \E t \in {now, now + 1} :
            LET row == CHOOSE r \in proc[p].product : TRUE
                new == addPurchase(proc[p].productId, proc[p].buyer,
                          proc[p].txHash, proc[p].network, row.price, t)
            IN  /\ t <= MaxClock
                /\ now' = t
                /\ IF ~PurchaseInsertOk(new)
                   THEN Respond(p, "sql_error", "") /\ UNCHANGED purchases
                   ELSE /\ purchases' = purchases \cup {new}
                        /\ Yield(p, [proc[p] EXCEPT !.pc = "v_sales"])
                        /\ UNCHANGED responses
    /\ UNCHANGED <<products, profiles, calls, admin>>

\* ------------------------------------------------------- profile routes
\* username || displayName.toLowerCase().replace(/^@/, '').replace(/\s/g, '')
Normalize(displayName) ==
    CASE displayName = "Alice" -> "alice"
      [] displayName = "@alice" -> "alice"
      [] OTHER -> displayName

\* SELECT address FROM store_profiles WHERE LOWER(username) = LOWER(?) AND address != ?
isUsernameTaken(username, excludeAddress) ==
    {a \in DOMAIN profiles : profiles[a].username = username /\ a # excludeAddress}

\* SELECT address FROM store_profiles WHERE LOWER(username) = LOWER(?)
findAddressByUsername(username) ==
    {a \in DOMAIN profiles : profiles[a].username = Normalize(username)}

\* upsertProfile after its await getProfile(address): UPDATE display_name and
\* username of the existing row, or INSERT a new row; username is UNIQUE
upsertProfile(address, displayName, username, existing) ==
    IF isUsernameTaken(username, address) # {} THEN profiles
    ELSE IF existing # {}
    THEN IF address \in DOMAIN profiles
         THEN [profiles EXCEPT ![address].display_name = displayName,
                               ![address].username = username]
         ELSE profiles
    ELSE IF address \in DOMAIN profiles THEN profiles
    ELSE (address :> ProfileRow(username, displayName)) @@ profiles

\* updateProfile(address, { displayName, bio, avatar, theme }):
\* UPDATE store_profiles SET display_name = ?, ..., updated_at = ? WHERE address = ?
updateProfile(address, displayName) ==
    IF address \in DOMAIN profiles /\ displayName # ""
    THEN [profiles EXCEPT ![address].display_name = displayName]
    ELSE profiles

\* UPDATE store_profiles SET views = views + 1 WHERE address = ?
incrementViews(address) ==
    IF address \in DOMAIN profiles
    THEN [profiles EXCEPT ![address].views = @ + 1]
    ELSE profiles

\* POST /api/username/claim with a well-formed username
StartClaim(address, username) ==
    StartAdmin([IdleProc EXCEPT !.pc = "n_taken", !.kind = "claim",
                  !.address = address, !.name = username])

\* const existing = await isUsernameTaken(normalizedUsername, address)
ClaimTaken(p) ==
    /\ Running(p)
    /\ proc[p].pc = "n_taken"
    /\ Yield(p, [proc[p] EXCEPT !.pc = "n_import",
                    !.existing = isUsernameTaken(proc[p].name, proc[p].address)])
    /\ UNCHANGED <<dbVars, now, responses, calls, admin>>

\* 409 if (existing), else await import('./db/index.js')
ClaimImport(p) ==
    /\ Running(p)
    /\ proc[p].pc = "n_import"
    /\ IF proc[p].existing # {}
       THEN Finish(p)
       ELSE Yield(p, [proc[p] EXCEPT !.pc = "up_read"])
    /\ UNCHANGED <<dbVars, now, responses, calls, admin>>

\* upsertProfile up to its await: const existing = await getProfile(address)
UpsertRead(p) ==
    /\ Running(p)
    /\ proc[p].pc = "up_read"
    /\ Yield(p, [proc[p] EXCEPT !.pc = "up_write",
                    !.existing = getProfile(proc[p].address)])
    /\ UNCHANGED <<dbVars, now, responses, calls, admin>>

\* the rest of upsertProfile; the claim route names the profile `@${username}`
UpsertWrite(p) ==
    /\ Running(p)
    /\ proc[p].pc = "up_write"
    /\ profiles' =
          IF proc[p].kind = "claim"
          THEN upsertProfile(proc[p].address, "@" \o proc[p].name, proc[p].name,
                             proc[p].existing)
          ELSE upsertProfile(proc[p].address, proc[p].name, Normalize(proc[p].name),
                             proc[p].existing)
    /\ IF \/ proc[p].kind = "claim"
          \/ isUsernameTaken(Normalize(proc[p].name), proc[p].address) # {}
          \/ proc[p].existing = {} /\ proc[p].address \in DOMAIN profiles
       THEN Finish(p)
       ELSE Yield(p, [proc[p] EXCEPT !.pc = "s_update"])
    /\ UNCHANGED <<products, purchases, now, responses, calls, admin>>

\* PUT /api/stores/:address with body { displayName } or { bio }
StartStorePut(address, displayName) ==
    StartAdmin([IdleProc EXCEPT !.pc = "s_profile", !.kind = "store",
                  !.address = address, !.name = displayName])

\* const existingProfile = await getProfile(params.address)
StoreGetProfile(p) ==
    /\ Running(p)
    /\ proc[p].pc = "s_profile"
    /\ Yield(p, [proc[p] EXCEPT !.pc = "s_branch",
                    !.existing = getProfile(proc[p].address)])
    /\ UNCHANGED <<dbVars, now, responses, calls, admin>>

\* if (!existingProfile && displayName) await upsertProfile(...), which reads
\* the profile again; otherwise straight to updateProfile
StoreBranch(p) ==
    /\ Running(p)
    /\ proc[p].pc = "s_branch"
    /\ IF proc[p].existing = {} /\ proc[p].name # ""
       THEN /\ Yield(p, [proc[p] EXCEPT !.pc = "up_write",
                           !.existing = getProfile(proc[p].address)])
            /\ UNCHANGED profiles
       ELSE /\ profiles' = updateProfile(proc[p].address, proc[p].name)
            /\ Finish(p)
    /\ UNCHANGED <<products, purchases, now, responses, calls, admin>>

\* await updateProfile(params.address, { displayName, bio, avatar, theme })
StoreUpdate(p) ==
    /\ Running(p)
    /\ proc[p].pc = "s_update"
    /\ profiles' = updateProfile(proc[p].address, proc[p].name)
    /\ Finish(p)
    /\ UNCHANGED <<products, purchases, now, responses, calls, admin>>

\* POST /api/stores/:address/views
StartViews(param) ==
    StartAdmin([IdleProc EXCEPT !.pc = "w_resolve", !.kind = "views",
                  !.address = param])

\* const resolvedAddress = await findAddressByUsername(params.address)
ViewsResolve(p) ==
    /\ Running(p)
    /\ proc[p].pc = "w_resolve"
    /\ Yield(p, [proc[p] EXCEPT !.pc = "w_incr",
           !.address = IF findAddressByUsername(proc[p].address) # {}
                       THEN CHOOSE a \in findAddressByUsername(proc[p].address) : TRUE
                       ELSE proc[p].address])
    /\ UNCHANGED <<dbVars, now, responses, calls, admin>>

\* await incrementViews(address)
ViewsIncrement(p) ==
    /\ Running(p)
    /\ proc[p].pc = "w_incr"
    /\ profiles' = incrementViews(proc[p].address)
    /\ Finish(p)
    /\ UNCHANGED <<products, purchases, now, responses, calls, admin>>


\* ------------------------------------------------------ payment hooks
MaxAttempts == 2     \* pay() calls on the hook over a behaviour

Attempts == 1..MaxAttempts

RECURSIVE Repeat(_, _)
Repeat(c, n) ==
    IF n = 0 THEN ""
    ELSE IF n = 1 THEN c
    ELSE Repeat(c, n \div 2) \o Repeat(c, n - (n \div 2))

SignatureChars == 88
HashChars == 64

\* the signature of the n-th transfer sent by the wallet, one per transfer:
\* base58 on Solana, 0x and 64 hex digits on Base
SignatureOf(n, network) ==
    IF network = "solana"
    THEN Repeat(SubSeq("ABCDEFGH", n, n), SignatureChars)
    ELSE "0x" \o Repeat(SubSeq("abcdef", n, n), HashChars)

\* String.prototype.includes
Includes(s, sub) ==
    \E i \in 1..(Len(s) - Len(sub) + 1) : SubSeq(s, i, i + Len(sub) - 1) = sub

\* the classification that never recognises an RPC failure
isRpcErrorNever(message) == FALSE

\* isRpcError: the message mentions one of six markers
isRpcError(message) ==
    \E m \in {"403", "Access forbidden", "rate limit", "timeout", "fetch", "network"} :
        Includes(message, m)

\* what an RPC endpoint does on every call: it answers, or it raises an
\* error with this message
Primaries == {"ok", "403 Access forbidden", "429 Too Many Requests"}
Fallbacks == {"ok", "failed to fetch"}
Resources == {"https://t/1", "res-1"}

Endpoint(conn) == IF conn = "primary" THEN env.primary ELSE env.fallback

InFlight == {a \in Attempts : attempt[a].pc \notin {"new", "done"}}

\* the recipient's token account exists once a transfer that creates it landed
AtaExists == env.ata \/ \E t \in chain : t.createdAta

\* rpc lists the RPC calls of the attempt with what the endpoint answered,
\* instructions is the transaction, reported the last answer about the
\* recipient's token account, shown what setError was given
NewAttempt ==
    [pc |-> "new", conn |-> "primary", createAta |-> FALSE, signature |-> "",
     response |-> {}, error |-> "", outcome |-> "", from |-> "", rerun |-> FALSE,
     rpc |-> << >>, instructions |-> << >>, reported |-> "", shown |-> ""]

\* an RPC call of an attempt and the answer of the endpoint
Rpc(a, call, result) ==
    Append(attempt[a].rpc, [endpoint |-> attempt[a].conn, call |-> call,
                            result |-> result])

\* message = error.message || String(error) of the error getAccount throws
\* when the account does not exist: it has no message, only its name
TokenAccountNotFound == "TokenAccountNotFoundError"

\* what getAccount(connection, recipientAta) does on an endpoint that answers
AccountAnswer == IF AtaExists THEN "ok" ELSE TokenAccountNotFound

\* transaction.add(createAssociatedTokenAccountInstruction(...)) when the
\* account was not found, then transaction.add(createTransferInstruction(...))
Instructions(create) ==
    IF create THEN <<"createAssociatedTokenAccount", "transfer">> ELSE <<"transfer">>

\* catch (err) of useSolanaPayment.pay: the RPC class is tested first, then
\* insufficient funds, then the rejection by the user
userFriendlyError(message) ==
    IF isRpcError(message)
    THEN "Network connection issue. Please check your internet connection and try again."
    ELSE IF Includes(message, "insufficient funds")
    THEN "Insufficient USDC balance. Please add funds to your wallet."
    ELSE IF Includes(message, "User rejected")
    THEN "Transaction was cancelled."
    ELSE message

\* what the wallet raises instead of sending: the user declines, the balance
\* is too low, and a simulation failure that quotes the program log
WalletErrors ==
    {"User rejected the request", "insufficient funds",
     "Simulation failed: Error: insufficient funds, consumed 4403 of 200000 compute units"}

\* an earlier attempt's transfer landed and its ledger call did not succeed
Landed(a) ==
    /\ attempt[a].signature # ""
    /\ attempt[a].pc = "done"
    /\ \A r \in attempt[a].response : ~r.success

\* catch (err) after the RPC calls rpc: setError(...); setStatus('error');
\* options.onError?.(err). useX402Payment shows the message as it is.
Thrown(a, message, rpc) ==
    /\ attempt' = [attempt EXCEPT ![a].pc = "done", ![a].error = message,
                                  ![a].outcome = "error", ![a].rpc = rpc,
                                  ![a].shown = IF env.hook = "solana"
                                               THEN userFriendlyError(message)
                                               ELSE message]
    /\ status' = "error"
    /\ UNCHANGED <<chain, reports, env, wire, serverVars>>

Fail(a, message) == Thrown(a, message, attempt[a].rpc)

\* pay(request) of useSolanaPayment up to its first RPC call
SolanaPay(a) ==
    /\ env.hook = "solana"
    /\ attempt[a].pc = "new"
    /\ \A b \in Attempts : b < a => attempt[b].pc # "new"
    /\ IF ~env.wallet
       THEN /\ attempt' = [attempt EXCEPT ![a].pc = "done", ![a].from = status,
                              ![a].error = "Wallet not connected",
                              ![a].shown = "Wallet not connected",
                              ![a].outcome = "error"]
            /\ status' = "error"
       ELSE /\ attempt' = [attempt EXCEPT ![a].pc = "account", ![a].from = status,
                              ![a].rerun = \E b \in Attempts : Landed(b)]
            /\ status' = "signing"
    /\ UNCHANGED <<chain, reports, env, wire, serverVars>>

\* the catch of the first getAccount with every error taken for an RPC error
GetAccountAnyError(a) ==
    /\ attempt[a].pc = "account"
    /\ LET result == IF env.primary = "ok" THEN AccountAnswer ELSE env.primary
           rpc == Rpc(a, "getAccount", result)
       IN  /\ attempt' = [attempt EXCEPT
                 ![a].pc = IF result = "ok" THEN "blockhash" ELSE "account_fallback",
                 ![a].conn = IF result = "ok" THEN "primary" ELSE "fallback",
                 ![a].reported = IF result = "ok" THEN "exists" ELSE "",
                 ![a].instructions = IF result = "ok" THEN Instructions(FALSE) ELSE << >>,
                 ![a].rpc = rpc]
           /\ UNCHANGED <<status, chain, reports, env, wire, serverVars>>

\* await getAccount(connection, recipientAta) on the primary endpoint and the
\* catch around it: isRpcError(err) is asked first, then
\* err instanceof TokenAccountNotFoundError; transaction.add(createTransferInstruction(...))
GetAccount(a) ==
    /\ attempt[a].pc = "account"
    /\ LET result == IF env.primary = "ok" THEN AccountAnswer ELSE env.primary
           rpc == Rpc(a, "getAccount", result)
       IN  IF result = "ok"
           THEN /\ attempt' = [attempt EXCEPT ![a].pc = "blockhash",
                                  ![a].createAta = FALSE, ![a].reported = "exists",
                                  ![a].instructions = Instructions(FALSE),
                                  ![a].rpc = rpc]
                /\ UNCHANGED <<status, chain, reports, env, wire, serverVars>>
           ELSE IF isRpcError(result)
           THEN /\ attempt' = [attempt EXCEPT ![a].pc = "account_fallback",
                                  ![a].conn = "fallback", ![a].rpc = rpc]
                /\ UNCHANGED <<status, chain, reports, env, wire, serverVars>>
           ELSE IF result = TokenAccountNotFound
           THEN /\ attempt' = [attempt EXCEPT ![a].pc = "blockhash",
                                  ![a].createAta = TRUE, ![a].reported = "not_found",
                                  ![a].instructions = Instructions(TRUE),
                                  ![a].rpc = rpc]
                /\ UNCHANGED <<status, chain, reports, env, wire, serverVars>>
           ELSE Thrown(a, result, rpc)

\* the retry that adds the create instruction whatever the fallback raised
GetAccountFallbackCreates(a) ==
    /\ attempt[a].pc = "account_fallback"
    /\ LET result == IF env.fallback = "ok" THEN AccountAnswer ELSE env.fallback
           rpc == Rpc(a, "getAccount", result)
       IN  /\ attempt' = [attempt EXCEPT ![a].pc = "blockhash",
                             ![a].createAta = (result # "ok"),
                             ![a].reported = IF result = "ok" THEN "exists"
                                             ELSE IF result = TokenAccountNotFound
                                             THEN "not_found" ELSE "",
                             ![a].instructions = Instructions(result # "ok"),
                             ![a].rpc = rpc]
           /\ UNCHANGED <<status, chain, reports, env, wire, serverVars>>

\* connection = getFallbackConnection(); await getAccount(connection, recipientAta)
\* and its catch: fallbackErr instanceof TokenAccountNotFoundError or throw
GetAccountFallback(a) ==
    /\ attempt[a].pc = "account_fallback"
    /\ LET result == IF env.fallback = "ok" THEN AccountAnswer ELSE env.fallback
           rpc == Rpc(a, "getAccount", result)
       IN  IF result = "ok"
           THEN /\ attempt' = [attempt EXCEPT ![a].pc = "blockhash",
                                  ![a].createAta = FALSE, ![a].reported = "exists",
                                  ![a].instructions = Instructions(FALSE),
                                  ![a].rpc = rpc]
                /\ UNCHANGED <<status, chain, reports, env, wire, serverVars>>
           ELSE IF result = TokenAccountNotFound
           THEN /\ attempt' = [attempt EXCEPT ![a].pc = "blockhash",
                                  ![a].createAta = TRUE, ![a].reported = "not_found",
                                  ![a].instructions = Instructions(TRUE),
                                  ![a].rpc = rpc]
                /\ UNCHANGED <<status, chain, reports, env, wire, serverVars>>
           ELSE Thrown(a, result, rpc)

\* await connection.getLatestBlockhash(); setStatus('submitting')
GetLatestBlockhash(a) ==
    /\ attempt[a].pc = "blockhash"
    /\ LET result == Endpoint(attempt[a].conn)
           rpc == Rpc(a, "getLatestBlockhash", result)
       IN  IF result = "ok"
           THEN /\ attempt' = [attempt EXCEPT ![a].pc = "send", ![a].rpc = rpc]
                /\ status' = "submitting"
                /\ UNCHANGED <<chain, reports, env, wire, serverVars>>
           ELSE Thrown(a, result, rpc)

\* await sendTransaction(transaction, connection): the wallet raises, or the
\* buyer approves and the transaction is sent through the connection and
\* lands; setStatus('verifying')
SendTransaction(a) ==
    /\ attempt[a].pc = "send"
    /\ \/ \E m \in WalletErrors : Fail(a, m)
       \/ LET result == Endpoint(attempt[a].conn)
              rpc == Rpc(a, "sendTransaction", result)
              sig == SignatureOf(Cardinality(chain) + 1, "solana")
          IN  IF result # "ok"
              THEN Thrown(a, result, rpc)
              ELSE /\ chain' = chain \cup {[signature |-> sig, network |-> "solana",
                                            conn |-> attempt[a].conn,
                                            createdAta |-> attempt[a].createAta]}
                   /\ attempt' = [attempt EXCEPT ![a].pc = "confirm",
                                     ![a].signature = sig, ![a].rpc = rpc]
                   /\ status' = "verifying"
                   /\ UNCHANGED <<reports, env, wire, serverVars>>

\* what confirmTransaction raises when the blockhash of the transaction
\* expires before the transaction is seen confirmed
BlockheightExceeded == "Signature has expired: block height exceeded."

\* what the confirmation call of an attempt can come back with
Confirmations(a) == {Endpoint(attempt[a].conn), BlockheightExceeded}

\* the confirmation that goes on to the payment API although it raised
ConfirmTransactionIgnored(a) ==
    /\ attempt[a].pc = "confirm"
    /\ \E result \in Confirmations(a) :
          attempt' = [attempt EXCEPT ![a].pc = "verify",
                         ![a].rpc = Rpc(a, "confirmTransaction", result)]
    /\ UNCHANGED <<status, chain, reports, env, wire, serverVars>>

\* await connection.confirmTransaction({ signature, blockhash, lastValidBlockHeight }),
\* then the call of the payment API
ConfirmTransaction(a) ==
    /\ attempt[a].pc = "confirm"
    /\ \E result \in Confirmations(a) :
          LET rpc == Rpc(a, "confirmTransaction", result) IN
          IF result = "ok"
          THEN /\ attempt' = [attempt EXCEPT ![a].pc = "verify", ![a].rpc = rpc]
               /\ UNCHANGED <<status, chain, reports, env, wire, serverVars>>
          ELSE Thrown(a, result, rpc)

\* payDirect(request) of useX402Payment up to walletClient.writeContract:
\* setStatus('signing') and setStatus('submitting') with no await between
X402PayDirect(a) ==
    /\ env.hook = "x402"
    /\ attempt[a].pc = "new"
    /\ \A b \in Attempts : b < a => attempt[b].pc # "new"
    /\ IF env.network = "solana" \/ ~env.wallet
       THEN /\ attempt' = [attempt EXCEPT ![a].pc = "done", ![a].from = status,
                              ![a].error = IF env.network = "solana"
                                 THEN "Solana payments require the useSolanaPayment hook"
                                 ELSE "Wallet not connected",
                              ![a].shown = IF env.network = "solana"
                                 THEN "Solana payments require the useSolanaPayment hook"
                                 ELSE "Wallet not connected",
                              ![a].outcome = "error"]
            /\ status' = "error"
       ELSE /\ attempt' = [attempt EXCEPT ![a].pc = "write", ![a].from = status,
                              ![a].rerun = \E b \in Attempts : Landed(b)]
            /\ status' = "submitting"
    /\ UNCHANGED <<chain, reports, env, wire, serverVars>>

\* const hash = await walletClient.writeContract({...}); setStatus('verifying')
WriteContract(a) ==
    /\ attempt[a].pc = "write"
    /\ \/ Fail(a, "User rejected the request")
       \/ LET hash == SignatureOf(Cardinality(chain) + 1, "base") IN
          /\ chain' = chain \cup {[signature |-> hash, network |-> "base",
                                    conn |-> "primary", createdAta |-> FALSE]}
          /\ attempt' = [attempt EXCEPT ![a].pc = "receipt", ![a].signature = hash]
          /\ status' = "verifying"
          /\ UNCHANGED <<reports, env, wire, serverVars>>

\* await publicClient?.waitForTransactionReceipt({ hash }): the receipt
\* arrives, or the wait raises when it runs out of time; then
\* PaymentApi.directPay(request.productId, hash, 'base', address)
WaitForTransactionReceipt(a) ==
    /\ attempt[a].pc = "receipt"
    /\ \/ /\ attempt' = [attempt EXCEPT ![a].pc = "verify",
                              ![a].rpc = Rpc(a, "waitForTransactionReceipt", "ok")]
          /\ UNCHANGED <<status, chain, reports, env, wire, serverVars>>
       \/ Thrown(a, "Timed out while waiting for transaction",
                 Rpc(a, "waitForTransactionReceipt",
                     "Timed out while waiting for transaction"))

\* ------------------------------------------------- POST /api/pay/direct
\* /^[a-zA-Z0-9]{88}$/.test(txHash)
Alphanumeric ==
    {"a", "b", "c", "d", "e", "f", "g", "h", "i", "j", "k", "l", "m", "n", "o", "p",
     "q", "r", "s", "t", "u", "v", "w", "x", "y", "z",
     "A", "B", "C", "D", "E", "F", "G", "H", "I", "J", "K", "L", "M", "N", "O", "P",
     "Q", "R", "S", "T", "U", "V", "W", "X", "Y", "Z",
     "0", "1", "2", "3", "4", "5", "6", "7", "8", "9"}

TxHashShape(txHash) ==
    /\ Len(txHash) = SignatureChars
    /\ \A i \in 1..Len(txHash) : SubSeq(txHash, i, i) \in Alphanumeric

\* the verdict of the route on a body; a key the body lacks is ""
PayDirectVerdict(body) ==
    IF body.productId = "" \/ body.txHash = "" \/ body.buyerAddress = ""
    THEN "Missing required fields: productId, txHash, buyerAddress"
    ELSE IF body.network # "" /\ body.network # "solana"
    THEN "Only Solana network is supported"
    ELSE IF ~TxHashShape(body.txHash)
    THEN "Invalid Solana transaction hash format"
    ELSE "pass"

\* set.status = 400 before the ledger is called
BadRequest(body) ==
    /\ calls < MaxCalls
    /\ calls' = calls + 1
    /\ responses' = responses (+) SetToBag({
          [kind |-> "solana", productId |-> body.productId, txHash |-> body.txHash,
           outcome |-> "bad_request", content |-> PayDirectVerdict(body),
           rowState |-> RowState(body.productId), full |-> Full(body.productId),
           recorded |-> Recorded(body.txHash)]})
    /\ UNCHANGED <<dbVars, now, proc, queue, admin, clientVars>>

\* POST /api/pay/direct
PayDirect(body) ==
    IF PayDirectVerdict(body) # "pass"
    THEN BadRequest(body)
    ELSE StartSolana(body.productId, body.txHash, body.buyerAddress)

\* ----------------------------------------------------------- fetchApi
ApiFailure(error) ==
    [success |-> FALSE, txHash |-> "", unlockedContent |-> "", error |-> error]

\* fetchApi on the answer of the route: !response.ok gives
\* { success: false, error: data.error }, else the inner data
fetchApi(e) ==
    IF e.outcome = "ok"
    THEN [success |-> TRUE, txHash |-> e.txHash, unlockedContent |-> e.content,
          error |-> ""]
    ELSE IF e.outcome = "bad_request" THEN ApiFailure("Bad Request")
    ELSE ApiFailure("Payment Failed")

\* the body the hook posts
BodyOf(a) ==
    [productId |-> "p1", txHash |-> attempt[a].signature,
     network |-> env.network, buyerAddress |-> CHOOSE b \in Buyers : TRUE]

Answers(a) == {e \in BagToSet(responses) : e.txHash = attempt[a].signature}

\* PaymentApi.directPay: fetchApi on POST /api/pay/direct; fetch may fail
directPay(a) ==
    {fetchApi(e) : e \in Answers(a)} \cup {ApiFailure("Failed to fetch")}

\* PaymentApi.verifyPayment(productId, signature, buyerAddress): the same
\* request with network 'solana', sent the same way
verifyPayment(a) == directPay(a)

\* the request of an attempt reaches the server
ServerReceives(a) ==
    /\ attempt[a].pc = "verify"
    /\ Answers(a) = {}
    /\ \A p \in Procs : proc[p].txHash # attempt[a].signature
    /\ PayDirect(BodyOf(a))

\* the awaited API call left pending for good
ApiPending(a) ==
    /\ attempt[a].pc = "verify"
    /\ UNCHANGED vars

\* the awaited API call returns, with the answer of the server or with the
\* failure of fetch; setStatus('success'), options.onSuccess?.({...}) and
\* return { txHash, unlockedContent: request.resource }
ApiReturns(a) ==
    /\ attempt[a].pc = "verify"
    /\ \E response \in IF env.hook = "solana" THEN verifyPayment(a) ELSE directPay(a) :
          /\ attempt' = [attempt EXCEPT ![a].pc = "done", ![a].response = {response},
                                        ![a].outcome = "success"]
          /\ reports' = reports \cup {
                [attempt |-> a, txHash |-> attempt[a].signature,
                 unlockedContent |-> IF response.unlockedContent # ""
                                     THEN response.unlockedContent ELSE env.resource,
                 returned |-> env.resource, response |-> response]}
    /\ status' = "success"
    /\ UNCHANGED <<chain, env, wire, serverVars>>

\* reset(), called when no attempt is in flight
Reset ==
    /\ InFlight = {}
    /\ status \in {"success", "error"}
    /\ status' = "idle"
    /\ UNCHANGED <<attempt, chain, reports, env, wire, serverVars>>

\* reset(), called while a pay() call has not returned: nothing of the call
\* is cancelled
ResetInFlight ==
    /\ InFlight # {}
    /\ status' = "idle"
    /\ UNCHANGED <<attempt, chain, reports, env, wire, serverVars>>

\* ------------------------------------------------------- protocol codec
\* A JavaScript string is the sequence of its UTF-16 code units.
\* the printable ASCII characters from U+0020 and from U+0061 (a string
\* of the model cannot hold U+0060)
AsciiLow ==
    " !\"#$%&'()*+,-./0123456789:;<=>?@ABCDEFGHIJKLMNOPQRSTUVWXYZ[\\]^_"

AsciiHigh == "abcdefghijklmnopqrstuvwxyz{|}~"

FirstLow == 32
FirstHigh == 97

IndexIn(s, c) == CHOOSE i \in 1..Len(s) : SubSeq(s, i, i) = c

CodeUnit(c) ==
    IF \E i \in 1..Len(AsciiLow) : SubSeq(AsciiLow, i, i) = c
    THEN FirstLow - 1 + IndexIn(AsciiLow, c)
    ELSE FirstHigh - 1 + IndexIn(AsciiHigh, c)

\* the code units of a string literal of the source
Units(s) == [i \in 1..Len(s) |-> CodeUnit(SubSeq(s, i, i))]

At(t, i) == IF i \in 1..Len(t) THEN t[i] ELSE -1

\* a function returns a value or throws an error
Return(v) == [ok |-> TRUE, v |-> v]
Throw(error) == [ok |-> FALSE, error |-> error]

\* JavaScript values that JSON carries
JStr(u) == [t |-> "string", v |-> u]
JArr(elements) == [t |-> "array", v |-> elements]
JObj(members) == [t |-> "object", v |-> members]
Member(key, value) == [k |-> Units(key), v |-> value]

RECURSIVE NumberToString(_)
\* Number.prototype.toString of a non-negative integer
NumberToString(n) ==
    IF n < 10 THEN <<CodeUnit("0") + n>>
    ELSE Append(NumberToString(n \div 10), CodeUnit("0") + (n % 10))

\* a number is kept as its decimal form
JNum(n) == [t |-> "number", v |-> NumberToString(n)]

\* property access: the last member with the key wins
Keys(x) == {x.v[i].k : i \in 1..Len(x.v)}
Get(x, key) ==
    LET last == CHOOSE i \in 1..Len(x.v) :
                   /\ x.v[i].k = Units(key)
                   /\ \A j \in (i + 1)..Len(x.v) : x.v[j].k # Units(key)
    IN  x.v[last].v

HexDigits == "0123456789abcdef"
HexDigit(n) == CodeUnit(SubSeq(HexDigits, n + 1, n + 1))

\* JSON.stringify of one code unit of a string
EscapeUnit(c) ==
    CASE c = 34 -> Units("\\\"")
      [] c = 92 -> Units("\\\\")
      [] c = 8  -> Units("\\b")
      [] c = 9  -> Units("\\t")
      [] c = 10 -> Units("\\n")
      [] c = 12 -> Units("\\f")
      [] c = 13 -> Units("\\r")
      [] c \in 0..31 \ {8, 9, 10, 12, 13} ->
            Units("\\u00") \o <<HexDigit(c \div 16), HexDigit(c % 16)>>
      [] OTHER -> <<c>>

RECURSIVE Escape(_)
\* the escapes of the code units, one after another
Escape(u) ==
    IF Len(u) = 0 THEN << >>
    ELSE IF Len(u) = 1 THEN EscapeUnit(u[1])
    ELSE LET half == Len(u) \div 2 IN
         Escape(SubSeq(u, 1, half)) \o Escape(SubSeq(u, half + 1, Len(u)))

Quote(u) == Units("\"") \o Escape(u) \o Units("\"")

RECURSIVE JoinComma(_)
JoinComma(texts) ==
    IF texts = << >> THEN << >>
    ELSE IF Len(texts) = 1 THEN texts[1]
    ELSE texts[1] \o Units(",") \o JoinComma(Tail(texts))

RECURSIVE Stringify(_)
\* JSON.stringify(value): members in insertion order, no white space
Stringify(x) ==
    CASE x.t = "string" -> Quote(x.v)
      [] x.t = "number" -> x.v
      [] x.t = "array" ->
            Units("[") \o JoinComma([i \in 1..Len(x.v) |-> Stringify(x.v[i])]) \o Units("]")
      [] x.t = "object" ->
            Units("{")
            \o JoinComma([i \in 1..Len(x.v) |->
                            Quote(x.v[i].k) \o Units(":") \o Stringify(x.v[i].v)])
            \o Units("}")
      [] OTHER -> Units(x.t)

\* ---- base64
Base64Alphabet == "ABCDEFGHIJKLMNOPQRSTUVWXYZabcdefghijklmnopqrstuvwxyz0123456789+/"

Base64Unit(n) == CodeUnit(SubSeq(Base64Alphabet, n + 1, n + 1))

Base64Units == {Base64Unit(n) : n \in 0..63}

Base64Value(c) == CHOOSE n \in 0..63 : Base64Unit(n) = c

Pad == CodeUnit("=")

MaxByte == 255

\* three bytes give four characters; a last group of one or two bytes is
\* filled with zero bits and padded with "="
Base64Encode(b) ==
    [i \in 1..(4 * ((Len(b) + 2) \div 3)) |->
        LET g == 3 * ((i - 1) \div 4)
            b1 == b[g + 1]
            b2 == IF g + 2 <= Len(b) THEN b[g + 2] ELSE 0
            b3 == IF g + 3 <= Len(b) THEN b[g + 3] ELSE 0
        IN  CASE (i - 1) % 4 = 0 -> Base64Unit(b1 \div 4)
              [] (i - 1) % 4 = 1 -> Base64Unit((b1 % 4) * 16 + (b2 \div 16))
              [] (i - 1) % 4 = 2 ->
                    IF g + 2 > Len(b) THEN Pad
                    ELSE Base64Unit((b2 % 16) * 4 + (b3 \div 64))
              [] OTHER ->
                    IF g + 3 > Len(b) THEN Pad ELSE Base64Unit(b3 % 64)]

\* btoa(data): InvalidCharacterError when a code unit is above U+00FF
btoa(data) ==
    IF \E i \in 1..Len(data) : data[i] > MaxByte
    THEN Throw("InvalidCharacterError")
    ELSE Return(Base64Encode(data))

\* groups of four give three bytes; a rest of two gives one byte and a rest
\* of three gives two, the bits left over are dropped
Base64Decode(s) ==
    [i \in 1..(3 * (Len(s) \div 4) + (IF Len(s) % 4 = 0 THEN 0 ELSE (Len(s) % 4) - 1)) |->
        LET g == 4 * ((i - 1) \div 3)
            v(k) == IF g + k <= Len(s) THEN Base64Value(s[g + k]) ELSE 0
        IN  CASE (i - 1) % 3 = 0 -> v(1) * 4 + (v(2) \div 16)
              [] (i - 1) % 3 = 1 -> (v(2) % 16) * 16 + (v(3) \div 4)
              [] OTHER -> (v(3) % 4) * 64 + v(4)]

AsciiWhitespace == {9, 10, 12, 13, 32}

\* atob(data), the forgiving-base64 decode: white space is dropped, one or
\* two "=" end a length that is a multiple of four, and a length of 4n+1 or
\* a code unit outside the alphabet is an InvalidCharacterError
atob(data) ==
    LET s == SelectSeq(data, LAMBDA c : c \notin AsciiWhitespace)
        n == Len(s)
        body == IF n % 4 = 0 /\ n > 0 /\ s[n] = Pad
                THEN IF s[n - 1] = Pad THEN SubSeq(s, 1, n - 2) ELSE SubSeq(s, 1, n - 1)
                ELSE s
    IN  IF Len(body) % 4 = 1 \/ \E i \in 1..Len(body) : body[i] \notin Base64Units
        THEN Throw("InvalidCharacterError")
        ELSE Return(Base64Decode(body))

\* ---- JSON.parse
JsonWhitespace == {9, 10, 13, 32}

Digits == {CodeUnit("0") + d : d \in 0..9}

\* a step of the parser: the value read and the index after it, or a failure
Parsed(v, i) == [ok |-> TRUE, v |-> v, i |-> i]
SyntaxError == Throw("SyntaxError")

RECURSIVE SkipWhitespace(_, _)
SkipWhitespace(t, i) ==
    IF At(t, i) \in JsonWhitespace THEN SkipWhitespace(t, i + 1) ELSE i

RECURSIVE SkipDigits(_, _)
SkipDigits(t, i) == IF At(t, i) \in Digits THEN SkipDigits(t, i + 1) ELSE i

\* the character an escape of one letter stands for
SimpleEscape ==
    (CodeUnit("\"") :> 34) @@ (CodeUnit("\\") :> 92) @@ (CodeUnit("/") :> 47)
    @@ (CodeUnit("b") :> 8) @@ (CodeUnit("f") :> 12) @@ (CodeUnit("n") :> 10)
    @@ (CodeUnit("r") :> 13) @@ (CodeUnit("t") :> 9)

IsHex(c) ==
    \/ c \in Digits
    \/ c \in CodeUnit("a")..CodeUnit("f")
    \/ c \in CodeUnit("A")..CodeUnit("F")

HexValue(c) ==
    IF c \in Digits THEN c - CodeUnit("0")
    ELSE IF c >= CodeUnit("a") THEN c - CodeUnit("a") + 10
    ELSE c - CodeUnit("A") + 10

RECURSIVE ParseChars(_, _, _)
\* the characters of a string up to its closing quote
ParseChars(t, i, acc) ==
    LET c == At(t, i) IN
    IF c = CodeUnit("\"") THEN Parsed(acc, i + 1)
    ELSE IF c < FirstLow THEN SyntaxError
    ELSE IF c # CodeUnit("\\") THEN ParseChars(t, i + 1, Append(acc, c))
    ELSE IF At(t, i + 1) \in DOMAIN SimpleEscape
    THEN ParseChars(t, i + 2, Append(acc, SimpleEscape[At(t, i + 1)]))
    ELSE IF At(t, i + 1) = CodeUnit("u") /\ \A k \in 2..5 : IsHex(At(t, i + k))
    THEN ParseChars(t, i + 6,
            Append(acc, HexValue(t[i + 2]) * 4096 + HexValue(t[i + 3]) * 256
                        + HexValue(t[i + 4]) * 16 + HexValue(t[i + 5])))
    ELSE SyntaxError

\* -? (0 | [1-9][0-9]*) (. [0-9]+)? ([eE] [+-]? [0-9]+)?; the number is kept
\* as it is written
ParseNumber(t, i) ==
    LET int == IF At(t, i) = CodeUnit("-") THEN i + 1 ELSE i
        frac == IF At(t, int) = CodeUnit("0") THEN int + 1 ELSE SkipDigits(t, int)
        exp == IF At(t, frac) = CodeUnit(".") THEN SkipDigits(t, frac + 1) ELSE frac
        sign == IF At(t, exp + 1) \in {CodeUnit("+"), CodeUnit("-")}
                THEN exp + 2 ELSE exp + 1
        end == IF At(t, exp) \in {CodeUnit("e"), CodeUnit("E")}
               THEN SkipDigits(t, sign) ELSE exp
    IN  IF \/ frac = int
           \/ At(t, frac) = CodeUnit(".") /\ exp = frac + 1
           \/ At(t, exp) \in {CodeUnit("e"), CodeUnit("E")} /\ end = sign
        THEN SyntaxError
        ELSE Parsed([t |-> "number", v |-> SubSeq(t, i, end - 1)], end)

Literals == {"true", "false", "null"}

IsAt(t, i, word) ==
    /\ i + Len(word) - 1 <= Len(t)
    /\ SubSeq(t, i, i + Len(word) - 1) = Units(word)

RECURSIVE ParseValue(_, _)
RECURSIVE ParseElements(_, _, _)
RECURSIVE ParseMembers(_, _, _)

ParseValue(t, from) ==
    LET i == SkipWhitespace(t, from)
        c == At(t, i)
    IN  IF c = CodeUnit("\"")
        THEN LET r == ParseChars(t, i + 1, << >>) IN
             IF r.ok THEN Parsed(JStr(r.v), r.i) ELSE SyntaxError
        ELSE IF c = CodeUnit("{")
        THEN LET j == SkipWhitespace(t, i + 1) IN
             IF At(t, j) = CodeUnit("}") THEN Parsed(JObj(<< >>), j + 1)
             ELSE ParseMembers(t, j, << >>)
        ELSE IF c = CodeUnit("[")
        THEN LET j == SkipWhitespace(t, i + 1) IN
             IF At(t, j) = CodeUnit("]") THEN Parsed(JArr(<< >>), j + 1)
             ELSE ParseElements(t, j, << >>)
        ELSE IF c = CodeUnit("-") \/ c \in Digits
        THEN ParseNumber(t, i)
        ELSE IF \E w \in Literals : IsAt(t, i, w)
        THEN LET w == CHOOSE x \in Literals : IsAt(t, i, x) IN
             Parsed([t |-> w, v |-> << >>], i + Len(w))
        ELSE SyntaxError

\* value (, value)* ]
ParseElements(t, from, acc) ==
    LET r == ParseValue(t, from) IN
    IF ~r.ok THEN SyntaxError
    ELSE LET j == SkipWhitespace(t, r.i) IN
         IF At(t, j) = CodeUnit(",") THEN ParseElements(t, j + 1, Append(acc, r.v))
         ELSE IF At(t, j) = CodeUnit("]") THEN Parsed(JArr(Append(acc, r.v)), j + 1)
         ELSE SyntaxError

\* "key" : value (, "key" : value)* }
ParseMembers(t, from, acc) ==
    LET i == SkipWhitespace(t, from)
        key == ParseChars(t, i + 1, << >>)
    IN  IF At(t, i) # CodeUnit("\"") \/ ~key.ok THEN SyntaxError
        ELSE LET colon == SkipWhitespace(t, key.i)
                 r == ParseValue(t, colon + 1)
             IN  IF At(t, colon) # CodeUnit(":") \/ ~r.ok THEN SyntaxError
                 ELSE LET j == SkipWhitespace(t, r.i)
                          members == Append(acc, [k |-> key.v, v |-> r.v])
                      IN  IF At(t, j) = CodeUnit(",")
                          THEN ParseMembers(t, j + 1, members)
                          ELSE IF At(t, j) = CodeUnit("}")
                          THEN Parsed(JObj(members), j + 1)
                          ELSE SyntaxError

\* JSON.parse(text): one value with nothing but white space around it
JSONparse(text) ==
    LET r == ParseValue(text, 1) IN
    IF r.ok /\ SkipWhitespace(text, r.i) > Len(text) THEN Return(r.v) ELSE SyntaxError

\* ---- the two envelopes
X402Version == 1
MaxTimeoutSeconds == 300
ValiditySeconds == 300
MillisPerSecond == 1000

\* const header: PaymentRequiredHeader = { x402Version: 1, accepts: [{...}] }
PaymentRequiredHeader(payTo, amount, network, resource, asset) ==
    JObj(<<Member("x402Version", JNum(X402Version)),
           Member("accepts", JArr(<<JObj(<<
               Member("scheme", JStr(Units("exact"))),
               Member("network", JStr(network)),
               Member("maxAmountRequired", JStr(amount)),
               Member("resource", JStr(resource)),
               Member("payTo", JStr(payTo)),
               Member("maxTimeoutSeconds", JNum(MaxTimeoutSeconds)),
               Member("asset", JStr(asset))>>)>>))>>)

\* return btoa(JSON.stringify(header))
encodePaymentRequired(payTo, amount, network, resource, asset) ==
    btoa(Stringify(PaymentRequiredHeader(payTo, amount, network, resource, asset)))

\* try { return JSON.parse(atob(encoded)) }
\* catch { throw new Error('Invalid Payment-Required header') }
decodePaymentRequired(encoded) ==
    LET text == atob(encoded) IN
    IF ~text.ok THEN Throw("Invalid Payment-Required header")
    ELSE IF ~JSONparse(text.v).ok THEN Throw("Invalid Payment-Required header")
    ELSE JSONparse(text.v)

\* const payload: PaymentPayload = {...}, dateNow the reading of Date.now()
PaymentPayload(network, signature, from, to, value, nonce, dateNow) ==
    JObj(<<Member("x402Version", JNum(X402Version)),
           Member("scheme", JStr(Units("exact"))),
           Member("network", JStr(network)),
           Member("payload", JObj(<<
               Member("signature", JStr(signature)),
               Member("authorization", JObj(<<
                   Member("from", JStr(from)),
                   Member("to", JStr(to)),
                   Member("value", JStr(value)),
                   Member("validAfter", JStr(Units("0"))),
                   Member("validBefore",
                          JStr(NumberToString((dateNow \div MillisPerSecond)
                                              + ValiditySeconds))),
                   Member("nonce", JStr(nonce))>>))>>))>>)

\* return btoa(JSON.stringify(payload))
createPaymentPayload(network, signature, from, to, value, nonce, dateNow) ==
    btoa(Stringify(PaymentPayload(network, signature, from, to, value, nonce, dateNow)))

\* try { return JSON.parse(atob(encoded)) }
\* catch { throw new Error('Invalid x402 payment payload') }
decodePaymentPayload(encoded) ==
    LET text == atob(encoded) IN
    IF ~text.ok THEN Throw("Invalid x402 payment payload")
    ELSE IF ~JSONparse(text.v).ok THEN Throw("Invalid x402 payment payload")
    ELSE JSONparse(text.v)

\* X402Service.decodePaymentPayload of the server, the same three lines
X402ServiceDecodePaymentPayload(encoded) ==
    LET text == atob(encoded) IN
    IF ~text.ok THEN Throw("Invalid x402 payment payload")
    ELSE IF ~JSONparse(text.v).ok THEN Throw("Invalid x402 payment payload")
    ELSE JSONparse(text.v)

\* ---- the calls of the codec
\* product.targetUrl: an identifier, a URL, a URL with a character of
\* Latin-1 (U+00E9), one with a character above U+00FF (U+2615), and one
\* with a quote and a backslash
ResourceTexts ==
    {Units("res-1"), Units("https://t/1"),
     Units("https://t/caf") \o <<233>>,
     Units("https://t/") \o <<9749>>,
     Units("a\"b\\c")}

RequiredArgs ==
    [payTo : {Units("0xPAYEE")},
     amount : {Units("9990000"), Units("0")},
     network : {Units("eip155:8453"), Units("eip155:84532")},
     resource : ResourceTexts,
     asset : {Units("0xUSDC")}]

\* the arguments useX402Payment.pay passes: hexadecimal strings and a
\* decimal amount
PayloadArgs ==
    [network : {Units("eip155:8453"), Units("eip155:84532")},
     signature : {Units("0xa"), Units("0xb")},
     from : {Units("0xBUYER")},
     to : {Units("0xPAYEE")},
     value : {Units("9990000")},
     nonce : {Units("0x01")},
     dateNow : {0, 999, 1000}]

\* header values a peer sends: encoded JSON of another shape, text that is
\* not JSON, strings that are not base64, and the two well-formed envelopes
ReceivedTexts ==
    {Units("{}"), Units("null"), Units("42"), Units("[]"),
     Units("{\"x402Version\":1}"),
     Units("{\"accepts\":[{}]}"),
     Units("not json"), Units("{\"x402Version\":1"), << >>}

Received ==
    {btoa(t).v : t \in ReceivedTexts}
    \cup {Units("not base64!"), Units("abcde")}
    \cup {encodePaymentRequired(Units("0xPAYEE"), Units("9990000"),
                                Units("eip155:8453"), Units("res-1"),
                                Units("0xUSDC")).v,
          createPaymentPayload(Units("eip155:8453"), Units("0xa"), Units("0xBUYER"),
                               Units("0xPAYEE"), Units("9990000"), Units("0x01"),
                               0).v}

NotYet == Throw("")
Undefined == [t |-> "undefined", v |-> << >>]

Calls ==
    {[op |-> "required", args |-> a, pc |-> "args", encoded |-> NotYet,
      value |-> Undefined, decoder |-> "", decoded |-> NotYet] : a \in RequiredArgs}
    \cup
    {[op |-> "payload", args |-> a, pc |-> "args", encoded |-> NotYet,
      value |-> Undefined, decoder |-> "", decoded |-> NotYet] : a \in PayloadArgs}
    \cup
    {[op |-> "received", args |-> << >>, pc |-> "encoded", encoded |-> Return(s),
      value |-> Undefined, decoder |-> "", decoded |-> NotYet] : s \in Received}

EncodePaymentRequired ==
    /\ wire.op = "required"
    /\ wire.pc = "args"
    /\ LET a == wire.args IN
       wire' = [wire EXCEPT
          !.pc = "encoded",
          !.value = PaymentRequiredHeader(a.payTo, a.amount, a.network,
                                          a.resource, a.asset),
          !.encoded = encodePaymentRequired(a.payTo, a.amount, a.network,
                                            a.resource, a.asset)]
    /\ UNCHANGED <<serverVars, status, attempt, chain, reports, env>>

CreatePaymentPayload ==
    /\ wire.op = "payload"
    /\ wire.pc = "args"
    /\ LET a == wire.args IN
       wire' = [wire EXCEPT
          !.pc = "encoded",
          !.value = PaymentPayload(a.network, a.signature, a.from, a.to, a.value,
                                   a.nonce, a.dateNow),
          !.encoded = createPaymentPayload(a.network, a.signature, a.from, a.to,
                                           a.value, a.nonce, a.dateNow)]
    /\ UNCHANGED <<serverVars, status, attempt, chain, reports, env>>

DecodePaymentRequired ==
    /\ wire.op \in {"required", "received"}
    /\ wire.pc = "encoded"
    /\ wire.encoded.ok
    /\ wire' = [wire EXCEPT !.pc = "decoded", !.decoder = "decodePaymentRequired",
                            !.decoded = decodePaymentRequired(wire.encoded.v)]
    /\ UNCHANGED <<serverVars, status, attempt, chain, reports, env>>

DecodePaymentPayload ==
    /\ wire.op \in {"payload", "received"}
    /\ wire.pc = "encoded"
    /\ wire.encoded.ok
    /\ wire' = [wire EXCEPT !.pc = "decoded", !.decoder = "decodePaymentPayload",
                            !.decoded = decodePaymentPayload(wire.encoded.v)]
    /\ UNCHANGED <<serverVars, status, attempt, chain, reports, env>>

X402ServiceDecode ==
    /\ wire.op \in {"payload", "received"}
    /\ wire.pc = "encoded"
    /\ wire.encoded.ok
    /\ wire' = [wire EXCEPT !.pc = "decoded",
                            !.decoder = "X402Service.decodePaymentPayload",
                            !.decoded = X402ServiceDecodePaymentPayload(wire.encoded.v)]
    /\ UNCHANGED <<serverVars, status, attempt, chain, reports, env>>

\* ---------------------------------------------------------- read routes
\* The GET routes only read; with no other request under way each is one
\* step. content is the target_url the answer carries, "" when it has none.
getProductsByCreator(address, includeInactive) ==
    {products[id] : id \in {i \in DOMAIN products :
        /\ products[i].creator_address = address
        /\ includeInactive \/ products[i].is_active}}

Answer(kind, productId, outcome, content) ==
    [kind |-> kind, productId |-> productId, txHash |-> "", outcome |-> outcome,
     content |-> content, rowState |-> RowState(productId),
     full |-> Full(productId), recorded |-> {}]

\* return { success: true, data: products }: the rows as they are stored
Listing(kind, rows) ==
    IF rows = {} THEN {Answer(kind, "", "ok", "")}
    ELSE {Answer(kind, r.id, "ok", r.target_url) : r \in rows}

Answered(entries) ==
    /\ queue = << >>
    /\ calls < MaxCalls
    /\ calls' = calls + 1
    /\ responses' = responses (+) SetToBag(entries)
    /\ UNCHANGED <<dbVars, now, proc, queue, admin, clientVars>>

\* GET /api/products/:id: 404, or the row without target_url and
\* encrypted_url and with has_target
GetProduct(id) ==
    Answered(IF getProductById(id, FALSE) = {}
             THEN {Answer("get_product", id, "not_found", "Product not found")}
             ELSE {Answer("get_product", id, "ok", "")})

\* GET /api/creators/:address/products?includeInactive=
GetCreatorProducts(address, includeInactive) ==
    Answered(Listing("creator_products",
                     getProductsByCreator(address, includeInactive)))

\* GET /api/stores/:address: the parameter is tried as a username first;
\* 404 without a profile, else the profile with socials and products
GetStore(param) ==
    LET resolved == findAddressByUsername(param)
        address == IF resolved # {} THEN CHOOSE a \in resolved : TRUE ELSE param
    IN  Answered(IF getProfile(address) = {}
                 THEN {Answer("store", "", "not_found", "Store not found")}
                 ELSE Listing("store", getProductsByCreator(address, FALSE)))

\* ---------------------------------------------------- useX402Payment.pay
\* wire is the one pay(request) call of the hook: the request, Date.now() of
\* the browser, the EIP-712 message handed to the wallet and the payload made
\* for the ledger
TickMillis == 500    \* the step of the browser clock
MaxMillis == 2000    \* the time a call may take

ClockStarts == {0, 999}
Amounts == {1, 25}
PayTos == {"0xC1", "0xC2"}
Address == "0xB1"

\* parseUnits(request.amount.toString(), 6)
UsdcDecimals == 1000000
parseUnits(amount) == amount * UsdcDecimals

\* keccak256(toHex(Date.now().toString() + Math.random().toString())): one
\* value for the call
NonceOf(dateNow) == "0x" \o (IF dateNow < MillisPerSecond THEN "e1" ELSE "e2")

PayCalls ==
    {[pc |-> "new", clock |-> c, amount |-> m, payTo |-> t, network |-> n,
      message |-> << >>, signature |-> "", payload |-> << >>, error |-> ""] :
        c \in ClockStarts, m \in Amounts, t \in PayTos, n \in {"base", "base-sepolia"}}

\* pay(request) up to await signTypedDataAsync({...}): the message the wallet
\* is asked to sign, with validBefore taken from Date.now() here
X402Pay ==
    /\ env.hook = "x402pay"
    /\ wire.pc = "new"
    /\ IF ~env.wallet
       THEN /\ wire' = [wire EXCEPT !.pc = "done", !.error = "Wallet not connected"]
            /\ status' = "error"
       ELSE /\ wire' = [wire EXCEPT !.pc = "sign",
                  !.message = [from |-> Address, to |-> wire.payTo,
                               value |-> parseUnits(wire.amount),
                               validAfter |-> 0,
                               validBefore |-> (wire.clock \div MillisPerSecond)
                                               + ValiditySeconds,
                               nonce |-> NonceOf(wire.clock)]]
            /\ status' = "signing"
    /\ UNCHANGED <<attempt, chain, reports, env, serverVars>>

\* the browser clock while a call is awaited
Tick ==
    /\ env.hook = "x402pay"
    /\ wire.pc \in {"sign", "verify"}
    /\ wire.clock + TickMillis <= MaxMillis
    /\ wire' = [wire EXCEPT !.clock = wire.clock + TickMillis]
    /\ UNCHANGED <<status, attempt, chain, reports, env, serverVars>>

\* createPaymentPayload(networkId, signature, address, request.payTo,
\* amountInUnits.toString(), nonce), which reads Date.now() itself
PayloadOfCall(network, signature, message, dateNow) ==
    createPaymentPayload(Units(network), Units(signature), Units(message.from),
                         Units(message.to), NumberToString(message.value),
                         Units(message.nonce), dateNow)

\* signTypedDataAsync resolves with the signature or rejects;
\* setStatus('submitting'); createPaymentPayload(...); setStatus('verifying')
SignTypedData ==
    /\ env.hook = "x402pay"
    /\ wire.pc = "sign"
    /\ \/ /\ wire' = [wire EXCEPT !.pc = "done", !.error = "User rejected the request"]
          /\ status' = "error"
       \/ LET made == PayloadOfCall(IF wire.network = "base" THEN "eip155:8453"
                                      ELSE "eip155:84532",
                                      "0x5a", wire.message, wire.clock)
          IN  IF made.ok
              THEN /\ wire' = [wire EXCEPT !.pc = "verify", !.signature = "0x5a",
                                           !.payload = made.v]
                   /\ status' = "verifying"
              ELSE /\ wire' = [wire EXCEPT !.pc = "done", !.signature = "0x5a",
                                           !.error = made.error]
                   /\ status' = "error"
    /\ UNCHANGED <<attempt, chain, reports, env, serverVars>>

\* await PaymentApi.verifyX402(...) returns: !response.success throws
VerifyX402Returns ==
    /\ env.hook = "x402pay"
    /\ wire.pc = "verify"
    /\ \/ /\ wire' = [wire EXCEPT !.pc = "done"]
          /\ status' = "success"
       \/ /\ \E e \in {"Payment Failed", "Failed to fetch"} :
                wire' = [wire EXCEPT !.pc = "done", !.error = e]
          /\ status' = "error"
    /\ UNCHANGED <<attempt, chain, reports, env, serverVars>>

\* ---------------------------------------------------------------- specs
\* initDatabase loads the database file of earlier runs: product p1 was
\* created by c1 and not sold yet, c1 may have a profile that has earned
\* nothing yet
LedgerInit ==
    /\ products \in {"p1" :> ProductRow("p1", 999, CHOOSE u \in Urls : TRUE, "c1", m) :
                       m \in Quantities}
    /\ profiles \in {<< >>, "c1" :> ProfileRow("alice", "Alice")}
    /\ purchases = {}
    /\ now = 0
    /\ proc = [p \in Procs |-> IdleProc]
    /\ queue = << >>
    /\ responses = EmptyBag
    /\ calls = 0
    /\ admin = 0

\* no hook is mounted
Init ==
    /\ LedgerInit
    /\ status = "idle"
    /\ attempt = << >>
    /\ chain = {}
    /\ reports = {}
    /\ env = << >>
    /\ wire = << >>

VerifySteps ==
    \E p \in Procs :
        \/ VerifyGetProduct(p)
        \/ VerifyChecks(p)
        \/ VerifyRecord(p)
        \/ SalesRead(p)
        \/ SalesWrite(p)
        \/ VerifyEarnings(p)
        \/ VerifyReturn(p)

ProductSteps ==
    \E p \in Procs :
        \/ CreateProductInsert(p)
        \/ UpdateProductRead(p)
        \/ UpdateProductWrite(p)
        \/ DeleteProductRead(p)
        \/ DeleteProductWrite(p)

StartProductRequest ==
    \/ \E id \in ProductIds, x \in Prices, m \in Quantities :
          StartCreateProduct(id, x, "c2", m)
    \/ \E id \in ProductIds, body \in Bodies : StartUpdateProduct(id, body)
    \/ \E id \in ProductIds : StartDeleteProduct(id)

StartSolanaRequest ==
    \E id \in ProductIds, r \in SolanaRefs, b \in Buyers : StartSolana(id, r, b)

EvmSteps ==
    \E p \in Procs :
        \/ EvmGetProduct(p)
        \/ EvmRecord(p)

ProfileSteps ==
    \E p \in Procs :
        \/ ClaimTaken(p)
        \/ ClaimImport(p)
        \/ UpsertRead(p)
        \/ UpsertWrite(p)
        \/ StoreGetProfile(p)
        \/ StoreBranch(p)
        \/ StoreUpdate(p)
        \/ ViewsResolve(p)
        \/ ViewsIncrement(p)

StartEvmRequest ==
    \/ \E s \in Signatures, n \in X402Networks, b \in Buyers : StartX402("p1", s, n, b)
    \/ \E h \in EvmRefs, b \in Buyers : StartDirect("p1", h, "base", b)

StartProfileRequest ==
    \/ \E a \in Addresses, u \in Usernames : StartClaim(a, u)
    \/ \E a \in Addresses, d \in DisplayNames \cup {""} : StartStorePut(a, d)
    \/ \E x \in Addresses \cup Usernames : StartViews(x)

\* the whole ledger, one request at a time: the routes of the Solana-only
\* server and the calls of the EVM x402 service
Next ==
    \/ queue = << >> /\ StartSolanaRequest
    \/ queue = << >> /\ StartEvmRequest
    \/ queue = << >> /\ StartProductRequest
    \/ queue = << >> /\ StartProfileRequest
    \/ VerifySteps
    \/ EvmSteps
    \/ ProductSteps
    \/ ProfileSteps

Spec == Init /\ [][Next]_vars

\* the payment and product routes of the Solana-only server for product p1,
\* the requests overlapping
NextSolana ==
    \/ \E r \in SolanaRefs, b \in Buyers : StartSolana("p1", r, b)
    \/ StartCreateProduct("p1", 999, "c1", NoMax)
    \/ \E body \in Bodies : StartUpdateProduct("p1", body)
    \/ StartDeleteProduct("p1")
    \/ VerifySteps
    \/ ProductSteps

SpecSolana == Init /\ [][NextSolana]_vars

\* the hook of one buyer against the Solana-only server
Envs ==
    {[hook |-> "solana", network |-> "solana", wallet |-> w, ata |-> t,
      primary |-> x, fallback |-> y, resource |-> u] :
        w \in BOOLEAN, t \in BOOLEAN, x \in Primaries, y \in Fallbacks, u \in Resources}
    \cup
    {[hook |-> "x402", network |-> n, wallet |-> w, ata |-> TRUE,
      primary |-> "ok", fallback |-> "ok", resource |-> u] :
        n \in {"base", "solana"}, w \in BOOLEAN, u \in Resources}

InitClient ==
    /\ LedgerInit
    /\ status = "idle"
    /\ attempt = [a \in Attempts |-> NewAttempt]
    /\ chain = {}
    /\ reports = {}
    /\ env \in Envs
    /\ wire = << >>

HookSteps ==
    \E a \in Attempts :
        \/ SolanaPay(a)
        \/ GetAccount(a)
        \/ GetAccountFallback(a)
        \/ GetLatestBlockhash(a)
        \/ SendTransaction(a)
        \/ ConfirmTransaction(a)
        \/ X402PayDirect(a)
        \/ WriteContract(a)
        \/ WaitForTransactionReceipt(a)
        \/ ServerReceives(a)
        \/ ApiReturns(a)

NextClient ==
    \/ HookSteps
    \/ Reset
    \/ VerifySteps

SpecClient == InitClient /\ [][NextClient]_vars

\* The hooks with reset() callable at any time, as the hooks export it.
NextReset ==
    \/ NextClient
    \/ ResetInFlight

\* the code of an attempt between two awaits, run once the awaited wallet,
\* RPC or API call has resolved or rejected
Resumes(a) ==
    \/ GetAccount(a)
    \/ GetAccountFallback(a)
    \/ GetLatestBlockhash(a)
    \/ SendTransaction(a)
    \/ ConfirmTransaction(a)
    \/ WriteContract(a)
    \/ WaitForTransactionReceipt(a)
    \/ ApiReturns(a)


\* The route POST /api/pay/direct on its own: env is the HTTP request, sent
\* up to MaxCalls times; a key the JSON body lacks is "".
RouteTxHashes ==
    {SignatureOf(1, "solana"),
     Repeat("A", SignatureChars - 1) \o "0",
     Repeat("A", SignatureChars - 1),
     SignatureOf(1, "base"),
     ""}

RouteBodies ==
    {[productId |-> i, txHash |-> t, network |-> n, buyerAddress |-> "b1"] :
        i \in {"p1", ""}, t \in RouteTxHashes, n \in {"", "solana", "base"}}

InitPayDirect ==
    /\ LedgerInit
    /\ status = "idle"
    /\ attempt = << >>
    /\ chain = {}
    /\ reports = {}
    /\ env \in {[hook |-> "http", body |-> b] : b \in RouteBodies}
    /\ wire = << >>

NextPayDirect ==
    \/ PayDirect(env.body)
    \/ VerifySteps

SpecPayDirect == InitPayDirect /\ [][NextPayDirect]_vars

\* the codec on its own: one call of an encoder and the decoding of its
\* result, or the decoding of a received header value
InitCodec ==
    /\ LedgerInit
    /\ status = "idle"
    /\ attempt = << >>
    /\ chain = {}
    /\ reports = {}
    /\ env = << >>
    /\ wire \in Calls

NextCodec ==
    \/ EncodePaymentRequired
    \/ CreatePaymentPayload
    \/ DecodePaymentRequired
    \/ DecodePaymentPayload
    \/ X402ServiceDecode

SpecCodec == InitCodec /\ [][NextCodec]_vars

\* the payment routes and the routes a visitor reads, one request at a time
NextBrowse ==
    \/ queue = << >> /\ StartSolanaRequest
    \/ queue = << >> /\ StartDeleteProduct("p1")
    \/ \E id \in ProductIds : GetProduct(id)
    \/ \E a \in Addresses, i \in BOOLEAN : GetCreatorProducts(a, i)
    \/ \E x \in Addresses \cup Usernames : GetStore(x)
    \/ VerifySteps
    \/ \E p \in Procs : DeleteProductRead(p) \/ DeleteProductWrite(p)

SpecBrowse == Init /\ [][NextBrowse]_vars

\* the product routes and the Solana payment route, one request at a time,
\* on a database file in which an earlier run may have deactivated p1
InitShelf ==
    /\ products \in {"p1" :> [ProductRow("p1", 999, CHOOSE u \in Urls : TRUE, "c1", m)
                                 EXCEPT !.is_active = a] :
                       m \in Quantities, a \in BOOLEAN}
    /\ profiles \in {<< >>, "c1" :> ProfileRow("alice", "Alice")}
    /\ purchases = {}
    /\ now = 0
    /\ proc = [p \in Procs |-> IdleProc]
    /\ queue = << >>
    /\ responses = EmptyBag
    /\ calls = 0
    /\ admin = 0
    /\ status = "idle"
    /\ attempt = << >>
    /\ chain = {}
    /\ reports = {}
    /\ env = << >>
    /\ wire = << >>

NextShelf ==
    \/ queue = << >> /\ StartSolanaRequest
    \/ queue = << >> /\ StartProductRequest
    \/ VerifySteps
    \/ ProductSteps

SpecShelf == InitShelf /\ [][NextShelf]_vars

\* useX402Payment.pay on its own: one call, the browser clock running
InitX402Pay ==
    /\ LedgerInit
    /\ status = "idle"
    /\ attempt = [a \in Attempts |-> NewAttempt]
    /\ chain = {}
    /\ reports = {}
    /\ env \in {[hook |-> "x402pay", network |-> "base", wallet |-> w, ata |-> TRUE,
                 primary |-> "ok", fallback |-> "ok", resource |-> "res-1"] :
                    w \in BOOLEAN}
    /\ wire \in PayCalls

NextX402Pay ==
    \/ X402Pay
    \/ Tick
    \/ SignTypedData
    \/ VerifyX402Returns

SpecX402Pay == InitX402Pay /\ [][NextX402Pay]_vars

\* The three payment flows of the hooks, each with a connected wallet, where
\* every awaited wallet, RPC and API call eventually resolves or rejects.
LiveEnvs ==
    {e \in Envs : /\ e.wallet /\ e.resource = "res-1"
                  /\ e.hook = "solana" => ~e.ata /\ e.primary \in {"ok", "403 Access forbidden"}}

InitLive ==
    /\ \/ InitClient /\ env \in LiveEnvs
       \/ InitX402Pay /\ env.wallet
    /\ profiles = << >>
    /\ products["p1"].max_quantity = NoMax

NextLive ==
    \/ NextReset
    \/ NextX402Pay

SpecLive ==
    /\ InitLive /\ [][NextLive]_vars
    /\ \A a \in Attempts : WF_vars(Resumes(a))
    /\ WF_vars(SignTypedData) /\ WF_vars(VerifyX402Returns)

\* --------------------------------------------------------------- claims
Entries == BagToSet(responses)
Successes(kinds, txHash) ==
    BagCardinality([e \in {x \in Entries : x.kind \in kinds /\ x.txHash = txHash
                                            /\ x.outcome = "ok"}
                      |-> CopiesIn(e, responses)])
Rows(txHash) == {r \in purchases : r.tx_hash = txHash}
Quiet == queue = << >>

\* C1 as stated: on the Solana path, a call made after a call with the same
\* reference has succeeded, for the same product or for another product that
\* is still available, is rejected with the replay error
C1_ReplayError ==
    \A e \in Entries :
        /\ e.kind = "solana"
        /\ e.recorded # {}
        /\ e.productId \in e.recorded \/ (e.rowState = "active" /\ ~e.full)
        => e.outcome = "replay"

\* C1 amended: on the Solana path, calls made one after another, a call whose
\* reference was recorded by an earlier success never succeeds, and it fails
\* with the replay error when its product exists, is active and is not sold
\* out; there is at most one Purchase per reference, as many successful
\* responses as Purchases once the call has returned and never more
C1_ReplayRejected ==
    /\ \A e \in Entries :
          e.kind = "solana" /\ e.recorded # {} =>
             /\ e.outcome # "ok"
             /\ e.rowState = "active" /\ ~e.full => e.outcome = "replay"
             /\ e.outcome = "replay" => e.rowState = "active" /\ ~e.full
    /\ \A R \in SolanaRefs :
          /\ Cardinality(Rows(R)) <= 1
          /\ Successes({"solana"}, R) <= Cardinality(Rows(R))
          /\ Quiet => Successes({"solana"}, R) = Cardinality(Rows(R))

\* a second call with SIG_A for another, available product was rejected with
\* the replay error after SIG_A had settled a purchase of p1
C1_Witness ==
    /\ Quiet
    /\ Cardinality(Rows("SIG_A")) = 1
    /\ Successes({"solana"}, "SIG_A") = 1
    /\ \E e \in Entries :
          /\ e.kind = "solana" /\ e.txHash = "SIG_A" /\ e.outcome = "replay"
          /\ e.recorded = {"p1"} /\ e.productId = "p2"

\* C2: of the concurrent Solana calls with one reference no more than one
\* succeeds, and no state holds two Purchase rows with the same reference
C2_OneSuccessPerReference ==
    /\ \A r1, r2 \in purchases : r1.tx_hash = r2.tx_hash => r1 = r2
    /\ \A R \in SolanaRefs : Successes({"solana"}, R) <= 1

\* C3: the successful calls for a product whose max_quantity is N are never
\* more than N
C3_SuccessesWithinMaxQuantity ==
    \A id \in DOMAIN products :
        products[id].max_quantity >= 1 =>
            BagCardinality([e \in {x \in Entries : x.productId = id /\ x.outcome = "ok"}
                              |-> CopiesIn(e, responses)])
               <= products[id].max_quantity

RECURSIVE Sum(_)
\* the sum of the amounts of a set of Purchase rows
Sum(rows) ==
    IF rows = {} THEN 0
    ELSE LET r == CHOOSE x \in rows : TRUE IN r.amount + Sum(rows \ {r})

RowsOfProduct(id) == {r \in purchases : r.product_id = id}
RowsOfCreator(a) ==
    {r \in purchases : r.product_id \in DOMAIN products
                        /\ products[r.product_id].creator_address = a}

\* C4: whenever no verification is in progress, each product's sold_count is
\* the number of its Purchase rows and each creator's total_earned is the sum
\* of the amounts of the Purchase rows of their products
C4_EffectsTogether ==
    Quiet =>
       /\ \A id \in DOMAIN products :
             products[id].sold_count = Cardinality(RowsOfProduct(id))
       /\ \A a \in DOMAIN profiles :
             profiles[a].total_earned = Sum(RowsOfCreator(a))

\* C5: an EVM verification, by x402 payload or by transaction hash, whose
\* reference an earlier verification recorded is rejected with the replay
\* error and no reference is recorded twice
C5_EvmReplayRejected ==
    /\ \A e \in Entries :
          /\ e.kind \in {"x402", "direct"} /\ e.recorded # {}
          /\ e.rowState = "active" /\ e.outcome # "sql_error"
          => e.outcome = "replay"
    /\ \A r1, r2 \in purchases :
          r1.network = "base" /\ r1.tx_hash = r2.tx_hash => r1 = r2

\* C6: every verification entry point answers not-found for an id with no
\* product and unavailable for the id of an inactive product
C6_NotFoundOrInactive ==
    \A e \in Entries :
        /\ e.rowState = "absent" => e.outcome = "not_found"
        /\ e.rowState = "inactive" => e.outcome = "inactive"

\* C7: a verification with a reference never recorded, for an active product
\* whose sold_count has reached its max_quantity, is rejected with the
\* sold-out error (unless the database refuses its row)
C7_SoldOutRejected ==
    \A e \in Entries :
        /\ e.rowState = "active" /\ e.full /\ e.recorded = {}
        /\ e.outcome # "sql_error"
        => e.outcome = "sold_out"

\* C8 as stated: the call that reuses the reference that bought the only unit
\* of the product fails with the replay error
C8_ThirdCallReplay ==
    \A e \in Entries :
        /\ e.kind = "solana" /\ e.rowState = "active" /\ e.full
        /\ e.productId \in e.recorded
        => e.outcome = "replay"

\* C8 amended: the call that reuses the reference that bought the only unit
\* of the product fails with the sold-out error, the availability check
\* coming before the replay check, and records no second Purchase
C8_ThirdCallSoldOut ==
    \A e \in Entries :
        /\ e.kind = "solana" /\ e.rowState = "active" /\ e.full
        /\ e.productId \in e.recorded
        => /\ e.outcome = "sold_out"
           /\ Cardinality(Rows(e.txHash)) = 1

\* the scenario: SIG_A bought the only unit of p1, SIG_B was rejected as sold
\* out and the third call, SIG_A again, has been answered
C8_Witness ==
    /\ Quiet
    /\ products["p1"].max_quantity = 1 /\ products["p1"].sold_count = 1
    /\ \E e \in Entries :
          e.txHash = "SIG_A" /\ e.productId = "p1" /\ e.outcome = "ok"
    /\ \E e \in Entries :
          /\ e.txHash = "SIG_B" /\ e.productId = "p1" /\ e.recorded = {}
          /\ e.outcome = "sold_out"
    /\ \E e \in Entries :
          /\ e.txHash = "SIG_A" /\ e.productId = "p1" /\ e.recorded = {"p1"}
          /\ e.outcome # "ok"

\* C9: no step of a verification, a product update or a product deletion
\* takes a product away or lowers its sold_count
C9_SoldCountNeverDecreases ==
    [][\A id \in DOMAIN products :
          /\ id \in DOMAIN products'
          /\ products'[id].sold_count >= products[id].sold_count]_vars

\* two verifications of p1 overlapped and one increment of sold_count was
\* lost, after a product update had been handled
C9_Witness ==
    /\ Quiet
    /\ admin = MaxAdmin
    /\ Cardinality(RowsOfProduct("p1")) = 2
    /\ products["p1"].sold_count = 1

\* C10: the creator's total_earned is what the successful verifications of
\* their products added to it, each the price of the product: once every
\* request has been answered it is the sum over the successful responses
C10_EarningsBySettlement ==
    Quiet =>
       \A a \in DOMAIN profiles :
          profiles[a].total_earned = Sum(RowsOfCreator(a))

OkResponses ==
    BagCardinality([e \in {x \in Entries : x.outcome = "ok"} |-> CopiesIn(e, responses)])

\* C11: every step keeps the Purchase rows there are as they are and adds at
\* most one, and once every request has been answered there are as many rows
\* as successful verifications
C11_PurchasesImmutable ==
    [][/\ purchases \subseteq purchases'
       /\ Cardinality(purchases') <= Cardinality(purchases) + 1
       /\ Quiet' => OkResponses' = Cardinality(purchases')]_vars

\* a Purchase of p1 is still there after p1 was deactivated
C11_Witness ==
    /\ Quiet
    /\ admin = MaxAdmin
    /\ ~products["p1"].is_active
    /\ Cardinality(RowsOfProduct("p1")) = 2
    /\ OkResponses = 2

\* C12: at most one payment attempt of the hook is in flight
C12_OneAttemptInFlight == Cardinality(InFlight) <= 1

Rank(st) ==
    CASE st = "idle" -> 0 [] st = "signing" -> 1 [] st = "submitting" -> 2
      [] st = "verifying" -> 3 [] OTHER -> 4

\* C13: the status only moves forward along idle, signing, submitting,
\* verifying and then success or error, success and error change only by the
\* reset to idle, and every attempt starts from idle
C13_StatusForward ==
    [][status' # status =>
          \/ Rank(status) < Rank(status') /\ Rank(status) < 4
          \/ Rank(status) = 4 /\ status' = "idle"]_vars

\* C14: the hook reports success only for an attempt whose ledger call
\* answered with success, and what it reports and returns then are the
\* reference and the unlock target of that answer
C14_SuccessFromLedger ==
    \A r \in reports :
        /\ r.response.success
        /\ r.txHash = r.response.txHash
        /\ r.unlockedContent = r.response.unlockedContent
        /\ r.returned = r.response.unlockedContent

C20_RerunHitsReplay ==
    \A a \in Attempts :
        env.hook = "solana" /\ attempt[a].rerun =>
           /\ attempt[a].signature = ""
           /\ Cardinality(chain) <= 1
           /\ Cardinality(purchases) <= 1
\* the Solana signature shape of the specification: 88 base58 characters
\* (the alphanumeric characters without 0, O, I and l)
Base58 == Alphanumeric \ {"0", "O", "I", "l"}

Base58Shape(txHash) ==
    /\ Len(txHash) = SignatureChars
    /\ \A i \in 1..Len(txHash) : SubSeq(txHash, i, i) \in Base58

ReachedLedger ==
    \/ \E p \in Procs : Running(p)
    \/ \E e \in Entries : e.outcome # "bad_request"

\* C16: POST /api/pay/direct answers 400 to every request whose network is
\* not "solana" or whose txHash is not an 88-character base58 signature;
\* only a request with network "solana" and a well-shaped txHash reaches
\* the ledger (PaymentService.verifyPayment).
C16_OnlySolanaReachesLedger ==
    ReachedLedger =>
        /\ env.body.network = "solana"
        /\ Base58Shape(env.body.txHash)


RECURSIVE Same(_, _)
\* two JavaScript values are equal member by member
Same(x, y) ==
    /\ x.t = y.t
    /\ CASE x.t \in {"string", "number"} -> x.v = y.v
         [] x.t = "array" ->
               /\ Len(x.v) = Len(y.v)
               /\ \A i \in 1..Len(x.v) : Same(x.v[i], y.v[i])
         [] x.t = "object" ->
               /\ Keys(x) = Keys(y)
               /\ \A i \in 1..Len(x.v), j \in 1..Len(y.v) :
                     (/\ x.v[i].k = y.v[j].k
                      /\ \A n \in (i + 1)..Len(x.v) : x.v[n].k # x.v[i].k
                      /\ \A n \in (j + 1)..Len(y.v) : y.v[n].k # y.v[j].k)
                     => Same(x.v[i].v, y.v[j].v)
         [] OTHER -> TRUE

\* C17: decoding what an encoder returns gives back the envelope it was
\* given: decodePaymentRequired after encodePaymentRequired, and
\* decodePaymentPayload (of the client and of the server) after
\* createPaymentPayload, for every valid envelope.
C17_RoundTrip ==
    wire.op \in {"required", "payload"} /\ wire.pc # "args" =>
        /\ wire.encoded.ok
        /\ wire.pc = "decoded" =>
              /\ wire.decoded.ok
              /\ Same(wire.decoded.v, wire.value)

Has(x, key, type) ==
    /\ x.t = "object"
    /\ Units(key) \in Keys(x)
    /\ Get(x, key).t = type

\* the required fields of PaymentAccept
OfferShape(x) ==
    /\ \A key \in {"scheme", "network", "maxAmountRequired", "resource", "payTo",
                   "asset"} : Has(x, key, "string")
    /\ Has(x, "maxTimeoutSeconds", "number")

\* the required fields of PaymentRequiredHeader
PaymentRequiredShape(x) ==
    /\ Has(x, "x402Version", "number")
    /\ Has(x, "accepts", "array")
    /\ \A i \in 1..Len(Get(x, "accepts").v) : OfferShape(Get(x, "accepts").v[i])

\* the required fields of PaymentPayload
PaymentPayloadShape(x) ==
    /\ Has(x, "x402Version", "number")
    /\ Has(x, "scheme", "string")
    /\ Has(x, "network", "string")
    /\ Has(x, "payload", "object")
    /\ Has(Get(x, "payload"), "signature", "string")
    /\ Has(Get(x, "payload"), "authorization", "object")
    /\ \A key \in {"from", "to", "value", "validAfter", "validBefore", "nonce"} :
          Has(Get(Get(x, "payload"), "authorization"), key, "string")

\* C18: a decoder that returns, returns a value with the required fields of
\* its envelope; on a string that is not validly encoded, is not JSON or is
\* JSON of another shape it fails with its protocol error.
C18_MalformedRejected ==
    wire.pc = "decoded" /\ wire.decoded.ok =>
        IF wire.decoder = "decodePaymentRequired"
        THEN PaymentRequiredShape(wire.decoded.v)
        ELSE PaymentPayloadShape(wire.decoded.v)

\* C19: encodePaymentRequired(payTo, amount, network, resource, asset)
\* produces an envelope that decodes to exactly one offer, with scheme
\* "exact", maxTimeoutSeconds 300 and payTo, maxAmountRequired, network,
\* resource and asset equal to the arguments.
C19_OneExactOffer ==
    wire.op = "required" /\ wire.pc # "args" =>
        /\ wire.encoded.ok
        /\ wire.pc = "decoded" =>
              /\ wire.decoded.ok
              /\ PaymentRequiredShape(wire.decoded.v)
              /\ Len(Get(wire.decoded.v, "accepts").v) = 1
              /\ LET offer == Get(wire.decoded.v, "accepts").v[1] IN
                 /\ Get(offer, "scheme").v = Units("exact")
                 /\ Get(offer, "maxTimeoutSeconds").v = Units("300")
                 /\ Get(offer, "payTo").v = wire.args.payTo
                 /\ Get(offer, "maxAmountRequired").v = wire.args.amount
                 /\ Get(offer, "network").v = wire.args.network
                 /\ Get(offer, "resource").v = wire.args.resource
                 /\ Get(offer, "asset").v = wire.args.asset

Rejections == {"not_found", "inactive", "sold_out", "replay"}

\* the steps of a verification before its first write
ReadPhase == {"v_product", "v_checks", "v_record", "x_product", "x_record"}

Rejected(e) == e.outcome \in Rejections /\ CopiesIn(e, responses') > CopiesIn(e, responses)

\* C21: a verification that is rejected (not found, inactive, sold out or
\* replay) leaves the ledger as it was: the rejection comes from a call that
\* has written nothing, and no step of a call that stays before its first
\* write, or ends in a rejection, changes the Purchase rows, a sold count or
\* an earnings total.
C21_RejectedLeavesLedger ==
    [][\A p \in Procs :
          Running(p) /\ proc[p].kind \in {"solana", "x402", "direct"} =>
             /\ (\E e \in BagToSet(responses') : Rejected(e)) =>
                   /\ proc[p].pc \in ReadPhase
                   /\ dbVars' = dbVars
             /\ proc[p].pc \in ReadPhase /\ proc'[p].pc \in ReadPhase =>
                   dbVars' = dbVars]_vars

\* a replayed reference and a sold-out product were rejected after a sale
C21_Witness ==
    /\ Quiet
    /\ purchases # {}
    /\ \E e \in Entries : e.outcome = "replay"
    /\ \E e \in Entries : e.outcome = "sold_out"


\* the RPC calls of an attempt that went to the fallback endpoint
FallbackCalls(a) ==
    {i \in 1..Len(attempt[a].rpc) : attempt[a].rpc[i].endpoint = "fallback"}

LastAccount(a) ==
    LET log == attempt[a].rpc
        asked == {i \in 1..Len(log) : log[i].call = "getAccount"}
    IN  log[CHOOSE i \in asked : \A j \in asked : j <= i].result

\* C23: the transaction of a Solana attempt is one transfer instruction,
\* preceded by a create-associated-token-account instruction exactly when the
\* endpoint finally consulted reported the recipient's token account as not
\* existing; an RPC error never adds the create instruction
C23_CreateIffNotFound ==
    \A a \in Attempts :
        LET ins == attempt[a].instructions IN
        ins # << >> =>
           /\ LastAccount(a) \in {"ok", TokenAccountNotFound}
           /\ ins[Len(ins)] = "transfer"
           /\ Cardinality({i \in 1..Len(ins) : ins[i] = "transfer"}) = 1
           /\ IF LastAccount(a) = TokenAccountNotFound
              THEN ins = <<"createAssociatedTokenAccount", "transfer">>
              ELSE ins = <<"transfer">>
           /\ \A t \in chain : t.signature = attempt[a].signature =>
                 (t.createdAta <=> LastAccount(a) = TokenAccountNotFound)

C23_Witness ==
    \E a, b \in Attempts :
        /\ attempt[a].signature # "" /\ attempt[a].conn = "fallback"
        /\ attempt[a].instructions = <<"createAssociatedTokenAccount", "transfer">>
        /\ attempt[b].signature # ""
        /\ attempt[b].instructions = <<"transfer">>


\* the message the hook owes to a failure raised by the wallet, by its kind
OwnMessage(message) ==
    IF Includes(message, "User rejected")
    THEN "Transaction was cancelled."
    ELSE "Insufficient USDC balance. Please add funds to your wallet."

\* C24: a Solana attempt that fails with a rejection by the wallet or with
\* insufficient funds ends in error with the message of that kind, is not
\* reported as a network problem and makes no call of the ledger
C24_WalletFailureOwnMessage ==
    \A a \in Attempts :
        env.hook = "solana" /\ attempt[a].error \in WalletErrors =>
           /\ attempt[a].pc = "done" /\ attempt[a].outcome = "error"
           /\ attempt[a].shown = OwnMessage(attempt[a].error)
           /\ attempt[a].shown #
                 "Network connection issue. Please check your internet connection and try again."
           /\ attempt[a].signature = "" /\ attempt[a].response = {}
           /\ \A r \in reports : r.attempt # a


\* the verification request of an attempt was sent: the hook is awaiting the
\* payment API or was answered, or the server holds the request
Sent(a) ==
    \/ attempt[a].pc = "verify"
    \/ attempt[a].response # {}
    \/ /\ attempt[a].signature # ""
       /\ \/ Answers(a) # {}
          \/ \E p \in Procs : proc[p].txHash = attempt[a].signature

WaitCalls == {"confirmTransaction", "waitForTransactionReceipt"}

PayPc == IF env.hook = "x402pay" THEN wire.pc ELSE "none"

\* C26: whenever the status is idle no pay() call of the hook is in flight,
\* and the status leaves idle only by the start of a pay() call
C26_IdleNothingInFlight ==
    /\ [](status = "idle" => InFlight = {} /\ PayPc \notin {"sign", "verify"})
    /\ [][status = "idle" /\ status' # "idle" =>
             \/ \E a \in Attempts : attempt[a].pc = "new" /\ attempt'[a].pc # "new"
             \/ PayPc = "new" /\ PayPc' # "new"]_vars

Busy == {"signing", "submitting", "verifying"}

\* C28: when every awaited wallet, RPC and API call resolves or rejects,
\* every attempt that was started ends in success or in error, and the status
\* does not stay in signing, submitting or verifying
C28_AttemptsEnd ==
    /\ \A a \in Attempts :
          (attempt[a].pc \notin {"new", "done"}) ~>
             (attempt[a].pc = "done" /\ attempt[a].outcome \in {"success", "error"})
    /\ (PayPc \in {"sign", "verify"}) ~> (PayPc = "done" /\ status \notin Busy)
    /\ (status \in Busy) ~> (status \notin Busy)

C28_Witness ==
    /\ status = "success"
    /\ \A a \in Attempts : attempt[a].pc = "done"
    /\ \E a \in Attempts : attempt[a].outcome = "error" /\ attempt[a].signature # ""
    /\ \E a \in Attempts : attempt[a].conn = "fallback" /\ attempt[a].outcome = "success"


\* C29: the authorization in the payload sent to the ledger equals, field by
\* field, the message the wallet signed in that call
C29_AuthorizationIsSigned ==
    env.hook = "x402pay" /\ wire.payload # << >> =>
       LET decoded == X402ServiceDecodePaymentPayload(wire.payload)
           authorization == Get(Get(decoded.v, "payload"), "authorization")
       IN  /\ decoded.ok
           /\ Get(authorization, "from") = JStr(Units(wire.message.from))
           /\ Get(authorization, "to") = JStr(Units(wire.message.to))
           /\ Get(authorization, "value") = JStr(NumberToString(wire.message.value))
           /\ Get(authorization, "validAfter") =
                 JStr(NumberToString(wire.message.validAfter))
           /\ Get(authorization, "validBefore") =
                 JStr(NumberToString(wire.message.validBefore))
           /\ Get(authorization, "nonce") = JStr(Units(wire.message.nonce))


\* C27: an answer of the API carries the target URL of a product only as the
\* unlocked content of a successful verification of that product, which
\* records the Purchase of the caller
C27_TargetOnlyUnlocked ==
    \A e \in Entries :
        /\ e.productId \in DOMAIN products
        /\ e.content = products[e.productId].target_url
        => /\ e.kind \in {"solana", "x402", "direct"}
           /\ e.outcome = "ok"
           /\ \E r \in purchases : r.product_id = e.productId

\* C30: a PUT /api/products/:id with isActive true on a product that exists
\* leaves the product active, also when the product was inactive before
C30_ReactivationSucceeds ==
    [][\A p \in Procs :
          /\ Running(p) /\ proc[p].kind = "put" /\ proc[p].pc = "u_write"
          /\ proc[p].body.isActive = {TRUE}
          /\ proc[p].productId \in DOMAIN products
          => products'[proc[p].productId].is_active]_vars
====
